---- MODULE Spec2Model ----
(***************************************************************************)
(* The SLA-aware, energy-conscious scheduling policy of Scheduler.cpp      *)
(* (lines 603-1183) together with the part of the simulator it talks to    *)
(* through Interfaces.h.  Every up-call is one action; the down-calls an   *)
(* up-call issues are applied to a record ("world") that is threaded       *)
(* through the handler and committed when the handler returns.             *)
(***************************************************************************)
EXTENDS Integers, Sequences, FiniteSets, TLC

\* Number of tasks the simulator hands to the scheduler in one run.
MaxTasks == 3

\* Number of up-calls the simulator makes in one run.
MaxSteps == 7

\* Width of the model's Time_t (the program's is 64 bits).
TimeBits == 8

\* Number of up-calls in a run whose input file defines every task class.
WideSteps == 6

\* Number of up-calls in a run in which any unfinished task may be reported
\* complete.
StraySteps == 5

\* Largest arrival time and target completion time of a task whose demand is
\* computed on its own.
MaxTime == 4

\* Largest instruction count of such a task.
MaxInstructions == 6

\* Width of the model's unsigned int (the program's is 32 bits).
UnsignedBits == 8

\* Largest cluster size and largest number of unfinished tasks for which the
\* tier sizes are computed on their own.
MaxMachines == 8
MaxWorkload == 10

\* Number of recent response times the predictive scheduler keeps for a VM
\* (the program's RESPONSE_TIME_HISTORY_SIZE is 10) and the largest response
\* time of a task.
HistorySize == 4
MaxResponse == 3

\* Number of up-calls in a run of the tier-management scheduler.
EcoSteps == 5

\* Number of up-calls in a run of the greedy scheduler.
GreedySteps == 4

(***************************************************************************)
(* Cluster and workload description (the simulator's input file).          *)
(***************************************************************************)
\* Machine classes: machine id m is Fleet[m + 1].
Fleet ==
  << [cpu |-> "RISCV", gpus |-> TRUE,  mips |-> 20, memory_size |-> 4],
     [cpu |-> "RISCV", gpus |-> FALSE, mips |-> 12, memory_size |-> 4],
     [cpu |-> "X86",   gpus |-> TRUE,  mips |-> 20, memory_size |-> 4] >>

\* Task classes a task is drawn from when it arrives.
TaskClasses ==
  << [required_vm |-> "LINUX", required_cpu |-> "RISCV", gpu_capable |-> FALSE,
      required_sla |-> "SLA0", required_memory |-> 2,
      total_instructions |-> 40, arrival |-> 0, target_completion |-> 4],
     [required_vm |-> "LINUX_RT", required_cpu |-> "RISCV", gpu_capable |-> TRUE,
      required_sla |-> "SLA1", required_memory |-> 3,
      total_instructions |-> 27, arrival |-> 1, target_completion |-> 4],
     [required_vm |-> "WIN", required_cpu |-> "RISCV", gpu_capable |-> FALSE,
      required_sla |-> "SLA2", required_memory |-> 1,
      total_instructions |-> 40, arrival |-> 0, target_completion |-> 4],
     [required_vm |-> "LINUX", required_cpu |-> "X86", gpu_capable |-> TRUE,
      required_sla |-> "SLA3", required_memory |-> 1,
      total_instructions |-> 27, arrival |-> 1, target_completion |-> 4] >>

Machine_GetTotal == Len(Fleet)
Machines == 0 .. (Machine_GetTotal - 1)
Tasks == 1 .. MaxTasks
Classes == 1 .. Len(TaskClasses)

\* The task classes of an input file with RISCV Linux work only.
LinuxClasses == { c \in Classes : /\ TaskClasses[c].required_cpu = "RISCV"
                                  /\ TaskClasses[c].required_vm \in {"LINUX", "LINUX_RT"} }

\* The id VM_GetInfo reports as host of a VM that is not attached.
NoMachine == Machine_GetTotal + 1

VARIABLES
  \* ---- scheduler (Scheduler.cpp 603-1183) ----
  machines,            \* vector<MachineId_t>
  vms,                 \* vector<VMId_t>
  migrating_vms,       \* set<VMId_t>
  mips_util_map,       \* map<MachineId_t, double>; an absent key reads 0
  machine_with_task,   \* map<TaskId_t, MachineId_t>
  pendingAttachments,  \* vector<PendingAttachment>
  \* ---- simulator ----
  s_state,             \* MachineInfo_t.s_state of every machine
  stateReq,            \* S-state requested and not yet acknowledged
  vmInfo,              \* VMInfo_t of every VM created so far
  memory_used,         \* MachineInfo_t.memory_used of every machine
  inFlight,            \* VM -> destination of a migration not yet done
  shutdownVMs,         \* VMs that VM_Shutdown has been called for
  offered,             \* task classes the input file defines
  limit,               \* number of up-calls the simulator makes in the run
  stray,               \* the simulator reports completions of tasks on no VM
  taskClass,           \* class of every task handed over so far (0: not yet)
  completed,           \* tasks reported complete
  aborted,             \* a failed assert() has terminated the process
  steps,               \* up-calls made so far
  \* ---- history of the last up-call ----
  lastCall,            \* the up-call that ran last
  calls,               \* the down-calls it issued, in order
  \* ---- a single evaluation of CalculateTaskCPUUtilization ----
  probeTask,           \* TaskInfo_t that GetTaskInfo returns
  probeDemand,         \* the value returned (-1: not called yet)
  \* ---- a single evaluation of CalculateTierSizes (Scheduler.cpp 227-248) ----
  tierInput,           \* totalMachines, activeWorkload and the system load
  tierSizes,           \* runningSize and intermediateSize (-1: not called yet)
  \* ---- tier-management scheduler (Scheduler.cpp 1-592) and its simulator ----
  eco,                 \* see the section on that scheduler
  \* ---- predictive scheduler (Scheduler.cpp 1192-1668), one VM ----
  pred,                \* see the section on that scheduler
  \* ---- greedy scheduler (its own translation unit) and its simulator ----
  greedy               \* see the section on that scheduler

vars == << machines, vms, migrating_vms, mips_util_map, machine_with_task,
           pendingAttachments, s_state, stateReq, vmInfo, memory_used,
           inFlight, shutdownVMs, offered, limit, stray, taskClass, completed, aborted,
           steps, lastCall, calls, probeTask, probeDemand, tierInput,
           tierSizes, eco, pred, greedy >>

\* The SLA-aware scheduler and the simulator it runs against.
slaVars == << machines, vms, migrating_vms, mips_util_map, machine_with_task,
              pendingAttachments, s_state, stateReq, vmInfo, memory_used,
              inFlight, shutdownVMs, offered, limit, stray, taskClass,
              completed, aborted, steps, lastCall, calls >>

\* Variables the SLA-aware scheduler's handlers never touch.
otherVars == << probeTask, probeDemand, tierInput, tierSizes, eco, pred, greedy >>

(***************************************************************************)
(* Small helpers.                                                          *)
(***************************************************************************)
RECURSIVE SumOver(_, _)
SumOver(S, f) ==
  IF S = {} THEN 0
  ELSE LET x == CHOOSE y \in S : TRUE IN f[x] + SumOver(S \ {x}, f)

\* Index of the first element of 1..n satisfying P, or n + 1.
RECURSIVE FirstFrom(_, _, _)
FirstFrom(i, n, P) ==
  IF i > n THEN n + 1 ELSE IF P[i] THEN i ELSE FirstFrom(i + 1, n, P)

(***************************************************************************)
(* Task interface (Interfaces.h).                                          *)
(***************************************************************************)
GetTaskInfo(w, task_id) == TaskClasses[w.taskClass[task_id]]

\* Scheduler::CalculateTaskCPUUtilization: MIPS demand of a task.  Times are
\* microseconds, so (instructions / 1e6) / (runtime / 1e6) is
\* instructions / runtime; Time_t is unsigned, so the subtraction wraps.
MIPSDemand(task) ==
  LET diff == (task.target_completion - task.arrival) % (2 ^ TimeBits)
      runtime == IF diff <= 0 THEN 1 ELSE diff
  IN  task.total_instructions \div runtime

CalculateTaskCPUUtilization(w, task_id) == MIPSDemand(GetTaskInfo(w, task_id))

\* The derivation with a branch of its own for SLA2.
PriorityOf_Sla2Mid(sla) ==
  IF sla = "SLA0" THEN "HIGH_PRIORITY"
  ELSE IF sla = "SLA1" \/ sla = "SLA2" THEN "MID_PRIORITY"
  ELSE "LOW_PRIORITY"

\* NewTask's derivation of the priority from the SLA class.
PriorityOf(sla) ==
  IF sla = "SLA0" THEN "HIGH_PRIORITY"
  ELSE IF sla = "SLA1" THEN "MID_PRIORITY"
  ELSE "LOW_PRIORITY"

(***************************************************************************)
(* Machine interface.                                                      *)
(***************************************************************************)
VMsOf(w) == DOMAIN w.vmInfo

Machine_GetInfo(w, machine_id) ==
  [ cpu         |-> Fleet[machine_id + 1].cpu,
    gpus        |-> Fleet[machine_id + 1].gpus,
    memory_size |-> Fleet[machine_id + 1].memory_size,
    memory_used |-> w.memory_used[machine_id],
    s_state     |-> w.s_state[machine_id] ]

\* The machines stay in P0, so the capacity is performance[0].
CalculateMachineMIPS(w, machine_id) == Fleet[machine_id + 1].mips

\* Machine_SetState: asynchronous; the new state is reported only after
\* StateChangeComplete.  A later request replaces an unacknowledged one.
Machine_SetState(w, machine_id, s) ==
  [ w EXCEPT
      !.stateReq = [ @ EXCEPT ![machine_id] = s ],
      !.calls = Append(@,
         [ op |-> "Machine_SetState", machine_id |-> machine_id, s_state |-> s,
           from |-> w.s_state[machine_id],
           pending |-> { i \in DOMAIN w.pendingAttachments :
                           w.pendingAttachments[i].machine_id = machine_id } # {},
           live |-> UNION { w.vmInfo[v].active_tasks :
                      v \in { u \in VMsOf(w) : w.vmInfo[u].machine_id = machine_id } } ]) ]

(***************************************************************************)
(* VM interface.                                                           *)
(***************************************************************************)
VM_GetInfo(w, vm) == w.vmInfo[vm]

\* The id VM_Create is about to return: ids are handed out in sequence.
NextVM(w) == Cardinality(VMsOf(w))

VM_Create(w, vm_type, cpu) ==
  LET new_vm == NextVM(w) IN
  [ w EXCEPT
      !.vmInfo = [ v \in VMsOf(w) \cup {new_vm} |->
                     IF v = new_vm
                     THEN [ vm_type |-> vm_type, cpu |-> cpu,
                            machine_id |-> NoMachine, active_tasks |-> {} ]
                     ELSE w.vmInfo[v] ],
      !.calls = Append(@, [ op |-> "VM_Create", vm |-> new_vm,
                            vm_type |-> vm_type, cpu |-> cpu ]) ]

VM_Attach(w, vm, machine_id) ==
  [ w EXCEPT
      !.vmInfo = [ @ EXCEPT ![vm].machine_id = machine_id ],
      !.calls = Append(@, [ op |-> "VM_Attach", vm |-> vm,
                            machine_id |-> machine_id,
                            s_state |-> w.s_state[machine_id] ]) ]

\* The memory of a task is charged to the machine that hosts its VM.
VM_AddTask(w, vm, task_id, priority) ==
  [ w EXCEPT
      !.vmInfo = [ @ EXCEPT ![vm].active_tasks = @ \cup {task_id} ],
      !.memory_used = [ @ EXCEPT ![w.vmInfo[vm].machine_id] =
                          @ + GetTaskInfo(w, task_id).required_memory ],
      !.calls = Append(@, [ op |-> "VM_AddTask", vm |-> vm, task_id |-> task_id,
                            priority |-> priority,
                            machine_id |-> w.vmInfo[vm].machine_id,
                            migrating |-> vm \in w.migrating_vms,
                            moving |-> vm \in DOMAIN w.inFlight ]) ]

\* VM_Shutdown: shuts the VM down if it has no active tasks.
VM_Shutdown(w, vm) ==
  [ w EXCEPT
      !.shutdownVMs = IF w.vmInfo[vm].active_tasks = {} THEN @ \cup {vm} ELSE @,
      !.calls = Append(@, [ op |-> "VM_Shutdown", vm |-> vm ]) ]

\* VM_Migrate: asynchronous; the VM stays on its source until MigrationDone.
VM_Migrate(w, vm, machine_id) ==
  [ w EXCEPT
      !.inFlight = [ v \in DOMAIN @ \cup {vm} |->
                       IF v = vm THEN machine_id ELSE @[v] ],
      !.calls = Append(@, [ op |-> "VM_Migrate", vm |-> vm,
                            machine_id |-> machine_id,
                            source |-> w.vmInfo[vm].machine_id,
                            moving |-> vm \in DOMAIN w.inFlight ]) ]

(***************************************************************************)
(* Load accounting.                                                        *)
(***************************************************************************)
\* Utilisation is a ratio; it is kept as a pair << numerator, denominator >>.
CalculateCPUUtilization(w, machine_id) ==
  LET cap == CalculateMachineMIPS(w, machine_id)
  IN  << w.mips_util_map[machine_id], IF cap <= 0 THEN 1 ELSE cap >>

CalculateMemoryUtilization(w, machine_id) ==
  << Machine_GetInfo(w, machine_id).memory_used,
     Machine_GetInfo(w, machine_id).memory_size >>

RatLess(a, b) == a[1] * b[2] < b[1] * a[2]
RatMax(a, b) == IF RatLess(a, b) THEN b ELSE a

\* The sort key of SortMachinesByUtilization: max(cpu, memory) utilisation.
UtilOf(w, machine_id) ==
  RatMax(CalculateCPUUtilization(w, machine_id),
         CalculateMemoryUtilization(w, machine_id))

\* Every arrangement of the machine ids.
Arrangements ==
  { p \in [ 1 .. Machine_GetTotal -> Machines ] :
      \A i, j \in DOMAIN p : i # j => p[i] # p[j] }

\* SortMachinesByUtilization: std::sort is not stable, so every ascending
\* arrangement of the machine vector is a possible result.
SortMachinesByUtilization(w) ==
  LET util == [ m \in Machines |-> UtilOf(w, m) ] IN
  { p \in Arrangements :
      /\ \A k \in DOMAIN w.machines : \E i \in DOMAIN p : p[i] = w.machines[k]
      /\ \A i, j \in DOMAIN p : i < j => ~ RatLess(util[p[j]], util[p[i]]) }

(***************************************************************************)
(* Scheduler::Init.                                                        *)
(***************************************************************************)
\* The guest types Init creates on a machine of the given CPU, in order.
InitVMTypes(cpu) ==
  CASE cpu = "RISCV" -> << "LINUX", "LINUX_RT" >>
    [] cpu = "POWER" -> << "LINUX", "LINUX_RT", "AIX" >>
    [] cpu = "ARM"   -> << "LINUX", "LINUX_RT", "WIN" >>
    [] cpu = "X86"   -> << "LINUX", "LINUX_RT", "WIN" >>
    [] OTHER         -> << >>

\* The VMs created and attached for machines 0 .. n-1, in creation order.
RECURSIVE InitCreated(_)
InitCreated(n) ==
  IF n = 0 THEN << >>
  ELSE LET types == InitVMTypes(Fleet[n].cpu) IN
       InitCreated(n - 1) \o
         [ k \in 1 .. Len(types) |->
             [ vm_type |-> types[k], cpu |-> Fleet[n].cpu,
               machine_id |-> n - 1, active_tasks |-> {} ] ]

InitVMInfo ==
  LET created == InitCreated(Machine_GetTotal)
  IN  [ v \in 0 .. (Len(created) - 1) |-> created[v + 1] ]

\* Ids of the created VMs of one guest type (the vectors linux, linux_rt, ...).
InitVMsOfType(vm_type) ==
  LET ids == [ k \in 1 .. Cardinality(DOMAIN InitVMInfo) |-> k - 1 ]
  IN  SelectSeq(ids, LAMBDA v : InitVMInfo[v].vm_type = vm_type)

\* The state after Scheduler::Init.
Constructed ==
  /\ machines = [ k \in 1 .. Machine_GetTotal |-> k - 1 ]
  /\ vms = InitVMsOfType("LINUX") \o InitVMsOfType("LINUX_RT")
             \o InitVMsOfType("WIN") \o InitVMsOfType("AIX")
  /\ migrating_vms = {}
  /\ mips_util_map = [ m \in Machines |-> 0 ]
  /\ machine_with_task = << >>
  /\ pendingAttachments = << >>
  /\ s_state = [ m \in Machines |-> "S0" ]
  /\ stateReq = [ m \in Machines |-> "none" ]
  /\ vmInfo = InitVMInfo
  /\ memory_used = [ m \in Machines |-> 0 ]
  /\ inFlight = << >>
  /\ shutdownVMs = {}
  /\ taskClass = [ t \in Tasks |-> 0 ]
  /\ completed = {}
  /\ aborted = FALSE
  /\ steps = 0
  /\ lastCall = [ op |-> "Init" ]
  /\ calls = << >>

\* No task is examined outside a run.
NoProbe ==
  /\ probeTask = [ arrival |-> 0, target_completion |-> 0, total_instructions |-> 0 ]
  /\ probeDemand = -1
  /\ tierInput = [ totalMachines |-> 0, activeWorkload |-> 0,
                   systemLoad |-> [ num |-> 0, den |-> 1 ] ]
  /\ tierSizes = [ runningSize |-> -1, intermediateSize |-> -1 ]

\* The tier-management scheduler is not linked.
NoEco == eco = << >>

\* The predictive scheduler is not linked.
NoPredictive == pred = << >>

\* The greedy scheduler is not linked.
NoGreedy == greedy = << >>

\* A run on an input file with RISCV Linux work.
Init ==
  /\ Constructed
  /\ NoProbe
  /\ NoEco /\ NoPredictive /\ NoGreedy
  /\ offered = LinuxClasses
  /\ limit = MaxSteps
  /\ stray = FALSE

\* A shorter run on an input file that defines every task class.
InitAllClasses ==
  /\ Constructed
  /\ NoProbe
  /\ NoEco /\ NoPredictive /\ NoGreedy
  /\ offered = Classes
  /\ limit = WideSteps
  /\ stray = FALSE

\* A run in which the simulator may report any unfinished task complete.
InitStray ==
  /\ Constructed
  /\ NoProbe
  /\ NoEco /\ NoPredictive /\ NoGreedy
  /\ offered = LinuxClasses
  /\ limit = StraySteps
  /\ stray = TRUE

(***************************************************************************)
(* The world record threaded through a handler.                            *)
(***************************************************************************)
World ==
  [ machines |-> machines, vms |-> vms, migrating_vms |-> migrating_vms,
    mips_util_map |-> mips_util_map, machine_with_task |-> machine_with_task,
    pendingAttachments |-> pendingAttachments, s_state |-> s_state,
    stateReq |-> stateReq, vmInfo |-> vmInfo, memory_used |-> memory_used,
    inFlight |-> inFlight, shutdownVMs |-> shutdownVMs,
    taskClass |-> taskClass, completed |-> completed, aborted |-> aborted,
    calls |-> << >> ]

Commit(w, call) ==
  /\ steps < limit
  /\ lastCall.op # "Shutdown"
  /\ steps' = steps + 1
  /\ UNCHANGED << offered, limit, stray, otherVars >>
  /\ shutdownVMs' = w.shutdownVMs
  /\ memory_used' = w.memory_used
  /\ machines' = w.machines
  /\ vms' = w.vms
  /\ migrating_vms' = w.migrating_vms
  /\ mips_util_map' = w.mips_util_map
  /\ machine_with_task' = w.machine_with_task
  /\ pendingAttachments' = w.pendingAttachments
  /\ s_state' = w.s_state
  /\ stateReq' = w.stateReq
  /\ vmInfo' = w.vmInfo
  /\ inFlight' = w.inFlight
  /\ taskClass' = w.taskClass
  /\ completed' = w.completed
  /\ aborted' = w.aborted
  /\ calls' = w.calls
  /\ lastCall' = call

\* History record of a commit: the accounting as it was just before task_id
\* was committed to machine_id.
Committed(w, task_id, machine_id) ==
  [ op |-> "commit", task_id |-> task_id, machine_id |-> machine_id,
    load_before |-> w.mips_util_map[machine_id],
    memory_before |-> w.memory_used[machine_id],
    map_before |-> w.machine_with_task ]

\* std::map::operator[] = value, inserting the key when it is absent.
MapPut(f, k, v) == [ x \in DOMAIN f \cup {k} |-> IF x = k THEN v ELSE f[x] ]
MapErase(f, k) == [ x \in DOMAIN f \ {k} |-> f[x] ]

(***************************************************************************)
(* Scheduler::IsVMReady, Scheduler::MigrateVM.                             *)
(***************************************************************************)
\* IsVMReady without the look-up in migrating_vms.
IsVMReady_NoFlag(w, vm) ==
  IF VM_GetInfo(w, vm).machine_id > Machine_GetTotal THEN FALSE
  ELSE IF Machine_GetInfo(w, VM_GetInfo(w, vm).machine_id).s_state = "S5" THEN FALSE
  ELSE TRUE

IsVMReady(w, vm) ==
  IF vm \in w.migrating_vms THEN FALSE
  ELSE IF VM_GetInfo(w, vm).machine_id > Machine_GetTotal THEN FALSE
  ELSE IF Machine_GetInfo(w, VM_GetInfo(w, vm).machine_id).s_state = "S5" THEN FALSE
  ELSE TRUE

\* machine_info.memory_size - machine_info.memory_used >= memory, in unsigned
\* arithmetic: when more is used than there is, the difference wraps around
\* to a large value and the test passes.
FreeMemoryAtLeast(machine_info, memory) ==
  IF machine_info.memory_used > machine_info.memory_size THEN TRUE
  ELSE machine_info.memory_size - machine_info.memory_used >= memory

\* The loop of MigrateVM over the VM's tasks: every task is mapped to the target.
RECURSIVE RemapTasks(_, _, _)
RemapTasks(map, S, target_machine) ==
  IF S = {} THEN map
  ELSE LET t_id == CHOOSE t \in S : TRUE
       IN  RemapTasks(MapPut(map, t_id, target_machine), S \ {t_id}, target_machine)

\* MigrateVM without the update of machine_with_task.
MigrateVM_NoRemap(w, vm, target_machine) ==
  LET vm_info == VM_GetInfo(w, vm)
      tasks == vm_info.active_tasks
      vmTotalDemand == SumOver(tasks, [ t \in tasks |-> CalculateTaskCPUUtilization(w, t) ])
      w1 == [ w EXCEPT
                !.mips_util_map =
                   [ [ @ EXCEPT ![vm_info.machine_id] = @ - vmTotalDemand ]
                       EXCEPT ![target_machine] = @ + vmTotalDemand ],
                !.migrating_vms = @ \cup {vm},
                !.calls = Append(@,
                   [ op |-> "MigrateVM", vm |-> vm, target |-> target_machine,
                     source |-> vm_info.machine_id,
                     demand |-> vmTotalDemand,
                     migrating |-> vm \in w.migrating_vms,
                     moving |-> vm \in DOMAIN w.inFlight,
                     target_state |-> w.s_state[target_machine],
                     loads |-> w.mips_util_map ]) ]
  IN  IF Machine_GetInfo(w1, target_machine).s_state = "S0"
      THEN VM_Migrate(w1, vm, target_machine)
      ELSE [ w1 EXCEPT !.aborted = TRUE ]

\* MigrateVM without the addition of the demand to the target's load.
MigrateVM_NoCredit(w, vm, target_machine) ==
  LET vm_info == VM_GetInfo(w, vm)
      tasks == vm_info.active_tasks
      vmTotalDemand == SumOver(tasks, [ t \in tasks |-> CalculateTaskCPUUtilization(w, t) ])
      w1 == [ w EXCEPT
                !.machine_with_task = RemapTasks(@, tasks, target_machine),
                !.mips_util_map = [ @ EXCEPT ![vm_info.machine_id] = @ - vmTotalDemand ],
                !.migrating_vms = @ \cup {vm},
                !.calls = Append(@,
                   [ op |-> "MigrateVM", vm |-> vm, target |-> target_machine,
                     source |-> vm_info.machine_id,
                     demand |-> vmTotalDemand,
                     migrating |-> vm \in w.migrating_vms,
                     moving |-> vm \in DOMAIN w.inFlight,
                     target_state |-> w.s_state[target_machine],
                     loads |-> w.mips_util_map ]) ]
  IN  IF Machine_GetInfo(w1, target_machine).s_state = "S0"
      THEN VM_Migrate(w1, vm, target_machine)
      ELSE [ w1 EXCEPT !.aborted = TRUE ]

MigrateVM(w, vm, target_machine) ==
  LET vm_info == VM_GetInfo(w, vm)
      tasks == vm_info.active_tasks
      vmTotalDemand == SumOver(tasks, [ t \in tasks |-> CalculateTaskCPUUtilization(w, t) ])
      w1 == [ w EXCEPT
                !.machine_with_task = RemapTasks(@, tasks, target_machine),
                !.mips_util_map =
                   [ [ @ EXCEPT ![vm_info.machine_id] = @ - vmTotalDemand ]
                       EXCEPT ![target_machine] = @ + vmTotalDemand ],
                !.migrating_vms = @ \cup {vm},
                !.calls = Append(@,
                   [ op |-> "MigrateVM", vm |-> vm, target |-> target_machine,
                     source |-> vm_info.machine_id,
                     demand |-> vmTotalDemand,
                     migrating |-> vm \in w.migrating_vms,
                     moving |-> vm \in DOMAIN w.inFlight,
                     target_state |-> w.s_state[target_machine],
                     loads |-> w.mips_util_map ]) ]
  IN  IF Machine_GetInfo(w1, target_machine).s_state = "S0"
      THEN VM_Migrate(w1, vm, target_machine)
      ELSE [ w1 EXCEPT !.aborted = TRUE ]

(***************************************************************************)
(* Scheduler::NewTask.                                                     *)
(***************************************************************************)
\* The test at lines 801-812 on one VM of the vector vms.
VMTakesTask(w, vm, machine_id, task_id) ==
  LET vm_info == VM_GetInfo(w, vm)
      task == GetTaskInfo(w, task_id)
      machine_info == Machine_GetInfo(w, machine_id)
  IN  /\ vm_info.machine_id = machine_id
      /\ vm_info.vm_type = task.required_vm
      /\ vm_info.cpu = task.required_cpu
      /\ IsVMReady(w, vm)
      /\ ~ task.gpu_capable \/ machine_info.gpus
      /\ FreeMemoryAtLeast(machine_info, task.required_memory)

\* The test at lines 830-832 for creating a VM on the machine.
CanCreateVM(w, machine_id, task_id) ==
  LET task == GetTaskInfo(w, task_id)
      machine_info == Machine_GetInfo(w, machine_id)
  IN  /\ machine_info.cpu = task.required_cpu
      /\ ~ task.gpu_capable \/ machine_info.gpus
      /\ FreeMemoryAtLeast(machine_info, task.required_memory)

\* The loop over sortedMachines without the commit of the task's demand.
RECURSIVE NewTaskLoop_NoCommit(_, _, _, _)
NewTaskLoop_NoCommit(w, sortedMachines, i, task_id) ==
  IF i > Len(sortedMachines) THEN w
  ELSE
    LET machine_id == sortedMachines[i]
        task == GetTaskInfo(w, task_id)
        priority == PriorityOf(task.required_sla)
        machineCapacity == CalculateMachineMIPS(w, machine_id)
        currentLoad == w.mips_util_map[machine_id]
        taskLoad == CalculateTaskCPUUtilization(w, task_id)
        machine_info == Machine_GetInfo(w, machine_id)
        k == FirstFrom(1, Len(w.vms),
               [ j \in 1 .. Len(w.vms) |-> VMTakesTask(w, w.vms[j], machine_id, task_id) ])
    IN  IF currentLoad + taskLoad < machineCapacity
        THEN IF machine_info.s_state # "S0"
             THEN NewTaskLoop_NoCommit(Machine_SetState(w, machine_id, "S0"),
                              sortedMachines, i + 1, task_id)
             ELSE IF k <= Len(w.vms)
             THEN [ VM_AddTask(w, w.vms[k], task_id, priority) EXCEPT
                      !.machine_with_task = MapPut(@, task_id, machine_id),
                      !.calls = Append(@, Committed(w, task_id, machine_id)) ]
             ELSE IF CanCreateVM(w, machine_id, task_id)
             THEN [ VM_Create(w, task.required_vm, task.required_cpu) EXCEPT
                      !.pendingAttachments = Append(@,
                         [ vm |-> NextVM(w), machine_id |-> machine_id,
                           task_id |-> task_id, priority |-> priority,
                           demand |-> taskLoad ]) ]
             ELSE NewTaskLoop_NoCommit(w, sortedMachines, i + 1, task_id)
        ELSE NewTaskLoop_NoCommit(w, sortedMachines, i + 1, task_id)

\* The loop over sortedMachines, from position i on.
RECURSIVE NewTaskLoop(_, _, _, _)
NewTaskLoop(w, sortedMachines, i, task_id) ==
  IF i > Len(sortedMachines) THEN w
  ELSE
    LET machine_id == sortedMachines[i]
        task == GetTaskInfo(w, task_id)
        priority == PriorityOf(task.required_sla)
        machineCapacity == CalculateMachineMIPS(w, machine_id)
        currentLoad == w.mips_util_map[machine_id]
        taskLoad == CalculateTaskCPUUtilization(w, task_id)
        machine_info == Machine_GetInfo(w, machine_id)
        k == FirstFrom(1, Len(w.vms),
               [ j \in 1 .. Len(w.vms) |-> VMTakesTask(w, w.vms[j], machine_id, task_id) ])
    IN  IF currentLoad + taskLoad < machineCapacity
        THEN IF machine_info.s_state # "S0"
             THEN NewTaskLoop(Machine_SetState(w, machine_id, "S0"),
                              sortedMachines, i + 1, task_id)
             ELSE IF k <= Len(w.vms)
             THEN [ VM_AddTask(w, w.vms[k], task_id, priority) EXCEPT
                      !.mips_util_map = [ @ EXCEPT ![machine_id] = @ + taskLoad ],
                      !.machine_with_task = MapPut(@, task_id, machine_id),
                      !.calls = Append(@, Committed(w, task_id, machine_id)) ]
             ELSE IF CanCreateVM(w, machine_id, task_id)
             THEN [ VM_Create(w, task.required_vm, task.required_cpu) EXCEPT
                      !.pendingAttachments = Append(@,
                         [ vm |-> NextVM(w), machine_id |-> machine_id,
                           task_id |-> task_id, priority |-> priority,
                           demand |-> taskLoad ]) ]
             ELSE NewTaskLoop(w, sortedMachines, i + 1, task_id)
        ELSE NewTaskLoop(w, sortedMachines, i + 1, task_id)

\* The task the simulator hands over next: tasks arrive in the order of their ids.
NextTask == CHOOSE t \in Tasks : taskClass[t] = 0 /\ \A u \in Tasks : u < t => taskClass[u] # 0

NewTask ==
  /\ ~ aborted
  /\ \E t \in Tasks : taskClass[t] = 0
  /\ \E c \in offered :
       LET w == [ World EXCEPT !.taskClass = [ @ EXCEPT ![NextTask] = c ] ] IN
       \E sortedMachines \in SortMachinesByUtilization(w) :
         Commit(NewTaskLoop(w, sortedMachines, 1, NextTask),
                [ op |-> "NewTask", task_id |-> NextTask ])

(***************************************************************************)
(* Scheduler::TaskComplete.                                                *)
(***************************************************************************)
\* TaskComplete that erases the task's entry before it looks the machine up:
\* the look-up then default-constructs machine 0.
TaskCompleteOp_EraseFirst(w, task_id) ==
  LET machine_id == 0
      demand == CalculateTaskCPUUtilization(w, task_id)
      lowered == w.mips_util_map[machine_id] - demand
      clamped == IF lowered < 0 THEN 0 ELSE lowered
      w1 == [ w EXCEPT
                !.mips_util_map = [ @ EXCEPT ![machine_id] = clamped ],
                !.machine_with_task = MapErase(@, task_id) ]
  IN  IF clamped = 0 /\ Machine_GetInfo(w1, machine_id).s_state # "S5"
      THEN Machine_SetState(w1, machine_id, "S5")
      ELSE w1

\* TaskComplete without the erase of the task's entry.
TaskCompleteOp_NoErase(w, task_id) ==
  LET machine_id == IF task_id \in DOMAIN w.machine_with_task
                    THEN w.machine_with_task[task_id] ELSE 0
      demand == CalculateTaskCPUUtilization(w, task_id)
      lowered == w.mips_util_map[machine_id] - demand
      clamped == IF lowered < 0 THEN 0 ELSE lowered
      w1 == [ w EXCEPT !.mips_util_map = [ @ EXCEPT ![machine_id] = clamped ] ]
  IN  IF clamped = 0 /\ Machine_GetInfo(w1, machine_id).s_state # "S5"
      THEN Machine_SetState(w1, machine_id, "S5")
      ELSE w1

TaskCompleteOp(w, task_id) ==
  LET \* machine_with_task[task_id] default-constructs machine 0 for a missing key
      machine_id == IF task_id \in DOMAIN w.machine_with_task
                    THEN w.machine_with_task[task_id] ELSE 0
      demand == CalculateTaskCPUUtilization(w, task_id)
      lowered == w.mips_util_map[machine_id] - demand
      clamped == IF lowered < 0 THEN 0 ELSE lowered
      w1 == [ w EXCEPT
                !.mips_util_map = [ @ EXCEPT ![machine_id] = clamped ],
                !.machine_with_task = MapErase(@, task_id) ]
  IN  IF clamped = 0 /\ Machine_GetInfo(w1, machine_id).s_state # "S5"
      THEN Machine_SetState(w1, machine_id, "S5")
      ELSE w1

\* The tasks that are running on some VM.
ActiveTasks == UNION { vmInfo[v].active_tasks : v \in DOMAIN vmInfo }

\* The tasks handed over, not reported complete, and on no VM.
StrayTasks == { t \in Tasks : taskClass[t] # 0 /\ t \notin completed } \ ActiveTasks

\* The simulator takes a finished task off its VM, then reports it.  In a
\* run with stray completions it also reports tasks that are on no VM.
TaskComplete ==
  /\ ~ aborted
  /\ \/ \E t \in ActiveTasks :
          LET host == CHOOSE v \in DOMAIN vmInfo : t \in vmInfo[v].active_tasks
              w == [ World EXCEPT
                       !.vmInfo = [ @ EXCEPT ![host].active_tasks = @ \ {t} ],
                       !.memory_used = [ @ EXCEPT ![vmInfo[host].machine_id] =
                                           @ - TaskClasses[taskClass[t]].required_memory ],
                       !.completed = @ \cup {t} ]
          IN  Commit(TaskCompleteOp(w, t), [ op |-> "TaskComplete", task_id |-> t ])
     \/ /\ stray
        /\ \E t \in StrayTasks :
             Commit(TaskCompleteOp([ World EXCEPT !.completed = @ \cup {t} ], t),
                    [ op |-> "TaskComplete", task_id |-> t ])

(***************************************************************************)
(* Scheduler::StateChangeComplete.                                         *)
(***************************************************************************)
\* The loop over pendingAttachments, from position i on; erasing an entry
\* leaves the iterator at the same position.
\* The loop that leaves the entries it has handled in pendingAttachments.
RECURSIVE DrainLoop_KeepEntry(_, _, _)
DrainLoop_KeepEntry(w, i, machine_id) ==
  IF i > Len(w.pendingAttachments) THEN w
  ELSE
    LET it == w.pendingAttachments[i] IN
    IF it.machine_id = machine_id /\ Machine_GetInfo(w, machine_id).s_state = "S0"
    THEN LET w1 == VM_AddTask(VM_Attach(w, it.vm, machine_id),
                              it.vm, it.task_id, it.priority)
             w2 == [ w1 EXCEPT
                       !.mips_util_map = [ @ EXCEPT ![machine_id] = @ + it.demand ],
                       !.machine_with_task = MapPut(@, it.task_id, machine_id),
                       !.calls = Append(@, Committed(w, it.task_id, machine_id)) ]
         IN  DrainLoop_KeepEntry(w2, i + 1, machine_id)
    ELSE DrainLoop_KeepEntry(w, i + 1, machine_id)

RECURSIVE DrainLoop(_, _, _)
DrainLoop(w, i, machine_id) ==
  IF i > Len(w.pendingAttachments) THEN w
  ELSE
    LET it == w.pendingAttachments[i] IN
    IF it.machine_id = machine_id /\ Machine_GetInfo(w, machine_id).s_state = "S0"
    THEN LET w1 == VM_AddTask(VM_Attach(w, it.vm, machine_id),
                              it.vm, it.task_id, it.priority)
             w2 == [ w1 EXCEPT
                       !.mips_util_map = [ @ EXCEPT ![machine_id] = @ + it.demand ],
                       !.machine_with_task = MapPut(@, it.task_id, machine_id),
                       !.pendingAttachments =
                          SubSeq(@, 1, i - 1) \o SubSeq(@, i + 1, Len(@)),
                       !.calls = Append(@, Committed(w, it.task_id, machine_id)) ]
         IN  DrainLoop(w2, i, machine_id)
    ELSE DrainLoop(w, i + 1, machine_id)

\* The loop without the test of the machine's S-state.
RECURSIVE DrainLoop_AnyState(_, _, _)
DrainLoop_AnyState(w, i, machine_id) ==
  IF i > Len(w.pendingAttachments) THEN w
  ELSE
    LET it == w.pendingAttachments[i] IN
    IF it.machine_id = machine_id
    THEN LET w1 == VM_AddTask(VM_Attach(w, it.vm, machine_id),
                              it.vm, it.task_id, it.priority)
             w2 == [ w1 EXCEPT
                       !.mips_util_map = [ @ EXCEPT ![machine_id] = @ + it.demand ],
                       !.machine_with_task = MapPut(@, it.task_id, machine_id),
                       !.pendingAttachments =
                          SubSeq(@, 1, i - 1) \o SubSeq(@, i + 1, Len(@)),
                       !.calls = Append(@, Committed(w, it.task_id, machine_id)) ]
         IN  DrainLoop_AnyState(w2, i, machine_id)
    ELSE DrainLoop_AnyState(w, i + 1, machine_id)

StateChangeCompleteOp_AnyState(w, machine_id) == DrainLoop_AnyState(w, 1, machine_id)

StateChangeCompleteOp(w, machine_id) == DrainLoop(w, 1, machine_id)

\* The simulator finishes a requested transition, then reports it.
StateChangeComplete ==
  /\ ~ aborted
  /\ \E m \in Machines :
       /\ stateReq[m] # "none"
       /\ LET w == [ World EXCEPT
                       !.s_state = [ @ EXCEPT ![m] = stateReq[m] ],
                       !.stateReq = [ @ EXCEPT ![m] = "none" ] ]
          IN  Commit(StateChangeCompleteOp(w, m),
                     [ op |-> "StateChangeComplete", machine_id |-> m ])

(***************************************************************************)
(* Scheduler::MigrationComplete.                                           *)
(***************************************************************************)
MigrationCompleteOp(w, vm_id) ==
  [ w EXCEPT !.migrating_vms = @ \ {vm_id} ]

\* The simulator moves the VM to its destination, then reports it.
MigrationComplete ==
  /\ ~ aborted
  /\ \E v \in DOMAIN inFlight :
       LET tasks == vmInfo[v].active_tasks
           moved == SumOver(tasks, [ t \in tasks |->
                                       TaskClasses[taskClass[t]].required_memory ])
           w == [ World EXCEPT
                    !.vmInfo = [ @ EXCEPT ![v].machine_id = inFlight[v] ],
                    !.memory_used =
                       [ [ @ EXCEPT ![vmInfo[v].machine_id] = @ - moved ]
                           EXCEPT ![inFlight[v]] = @ + moved ],
                    !.inFlight = MapErase(@, v) ]
       IN  Commit(MigrationCompleteOp(w, v), [ op |-> "MigrationComplete", vm |-> v ])

(***************************************************************************)
(* Scheduler::PeriodicCheck.                                               *)
(***************************************************************************)
\* utilization > overloadThreshold, with utilization = currentLoad / machineMIPS.
Overloaded(currentLoad, machineMIPS) == 10 * currentLoad > 9 * machineMIPS

\* The test at line 902 without the look-up in migrating_vms.
PeriodicCandidate_NoFlag(w, vm, machine_id) ==
  VM_GetInfo(w, vm).machine_id = machine_id

\* The test at line 902 on a VM of the vector vms.
PeriodicCandidate(w, vm, machine_id) ==
  /\ VM_GetInfo(w, vm).machine_id = machine_id
  /\ vm \notin w.migrating_vms

\* The tests at lines 908-919 on one machine of the sorted vector:
\* targetLoad / targetMIPS < currentLoad / machineMIPS - 0.1.
PeriodicTargetOK(w, vm, machine_id, currentLoad, machineMIPS, target_machine) ==
  LET targetMIPS == CalculateMachineMIPS(w, target_machine)
      targetLoad == w.mips_util_map[target_machine]
  IN  /\ target_machine # machine_id
      /\ Machine_GetInfo(w, target_machine).cpu = VM_GetInfo(w, vm).cpu
      /\ 10 * targetLoad * machineMIPS
           < 10 * currentLoad * targetMIPS - targetMIPS * machineMIPS

\* The loop over vms for one overloaded machine, from position j on.  The
\* utilisation of the machine was read before the loop and is not read again.
RECURSIVE PeriodicVMLoop(_, _, _, _, _)
PeriodicVMLoop(w, j, machine_id, currentLoad, machineMIPS) ==
  IF w.aborted \/ j > Len(w.vms) THEN {w}
  ELSE
    LET vm == w.vms[j] IN
    IF PeriodicCandidate(w, vm, machine_id)
    THEN UNION {
           LET k == FirstFrom(1, Len(sortedMachines),
                      [ i \in 1 .. Len(sortedMachines) |->
                          PeriodicTargetOK(w, vm, machine_id, currentLoad,
                                           machineMIPS, sortedMachines[i]) ])
           IN  PeriodicVMLoop(IF k <= Len(sortedMachines)
                              THEN MigrateVM(w, vm, sortedMachines[k])
                              ELSE w,
                              j + 1, machine_id, currentLoad, machineMIPS)
           : sortedMachines \in SortMachinesByUtilization(w) }
    ELSE PeriodicVMLoop(w, j + 1, machine_id, currentLoad, machineMIPS)

\* Lines 931-940: power off a machine whose load (read before the migration
\* loop) is zero.
PowerOffIdle(w, machine_id, currentLoad) ==
  IF w.aborted THEN w
  ELSE IF currentLoad <= 0 /\ Machine_GetInfo(w, machine_id).s_state # "S5"
  THEN Machine_SetState(w, machine_id, "S5")
  ELSE w

\* The loop over machines, from position i on.
RECURSIVE PeriodicMachineLoop(_, _)
PeriodicMachineLoop(w, i) ==
  IF w.aborted \/ i > Len(w.machines) THEN {w}
  ELSE
    LET machine_id == w.machines[i]
        machineMIPS == CalculateMachineMIPS(w, machine_id)
        currentLoad == w.mips_util_map[machine_id]
        migrated == IF Overloaded(currentLoad, machineMIPS)
                    THEN PeriodicVMLoop(w, 1, machine_id, currentLoad, machineMIPS)
                    ELSE {w}
    IN  UNION { PeriodicMachineLoop(PowerOffIdle(w1, machine_id, currentLoad), i + 1)
                : w1 \in migrated }

PeriodicCheckOp(w) == PeriodicMachineLoop(w, 1)

PeriodicCheck ==
  /\ ~ aborted
  /\ \E w \in PeriodicCheckOp(World) : Commit(w, [ op |-> "PeriodicCheck" ])

(***************************************************************************)
(* Scheduler::SLAWarning.                                                  *)
(***************************************************************************)
\* The test at lines 997-998 on a VM of the vector vms.
SLACandidate(w, vm, overloaded) ==
  /\ VM_GetInfo(w, vm).machine_id = overloaded
  /\ VM_GetInfo(w, vm).active_tasks # {}
  /\ vm \notin w.migrating_vms

\* The tests at lines 1003-1011 without the comparison of CPU types.
SLATargetOK_AnyCpu(w, vm, overloaded, target) ==
  /\ target # overloaded
  /\ RatLess(UtilOf(w, target), UtilOf(w, overloaded))

\* The tests at lines 1003-1011 on one machine of the sorted vector.
SLATargetOK(w, vm, overloaded, target) ==
  /\ target # overloaded
  /\ Machine_GetInfo(w, target).cpu = VM_GetInfo(w, vm).cpu
  /\ RatLess(UtilOf(w, target), UtilOf(w, overloaded))

\* The loop over vms, from position j on; the first migration ends the call.
RECURSIVE SLAVMLoop(_, _, _, _)
SLAVMLoop(w, sortedMachines, j, overloaded) ==
  IF j > Len(w.vms) THEN w
  ELSE
    LET vm == w.vms[j]
        k == FirstFrom(1, Len(sortedMachines),
               [ i \in 1 .. Len(sortedMachines) |->
                   SLATargetOK(w, vm, overloaded, sortedMachines[i]) ])
    IN  IF SLACandidate(w, vm, overloaded) /\ k <= Len(sortedMachines)
        THEN MigrateVM(w, vm, sortedMachines[k])
        ELSE SLAVMLoop(w, sortedMachines, j + 1, overloaded)

SLAWarningOp(w, sortedMachines) ==
  IF Len(sortedMachines) = 0 THEN w
  ELSE SLAVMLoop(w, sortedMachines, 1, sortedMachines[Len(sortedMachines)])

\* The simulator warns about a task it has handed over and not seen finish.
SLAWarning ==
  /\ ~ aborted
  /\ \E t \in { u \in Tasks : taskClass[u] # 0 /\ u \notin completed } :
     \E sortedMachines \in SortMachinesByUtilization(World) :
       Commit(SLAWarningOp(World, sortedMachines),
              [ op |-> "SLAWarning", task_id |-> t ])

(***************************************************************************)
(* MemoryWarning.                                                          *)
(***************************************************************************)
\* The handler writes a line to the log and returns.
MemoryWarningOp(w, machine_id) == w

\* The simulator warns about a machine whose memory is overcommitted.
MemoryWarning ==
  /\ ~ aborted
  /\ \E m \in Machines :
       /\ memory_used[m] > Fleet[m + 1].memory_size
       /\ Commit(MemoryWarningOp(World, m), [ op |-> "MemoryWarning", machine_id |-> m ])

(***************************************************************************)
(* Scheduler::Shutdown.                                                    *)
(***************************************************************************)
\* The loop over vms, from position j on.
RECURSIVE ShutdownLoop(_, _)
ShutdownLoop(w, j) ==
  IF j > Len(w.vms) THEN w
  ELSE ShutdownLoop(VM_Shutdown(w, w.vms[j]), j + 1)

ShutdownOp(w) == ShutdownLoop(w, 1)

\* SimulationComplete: the last up-call of a run.
Shutdown ==
  /\ ~ aborted
  /\ Commit(ShutdownOp(World), [ op |-> "Shutdown" ])

(***************************************************************************)
(* Specification.                                                          *)
(***************************************************************************)
Next ==
  \/ NewTask
  \/ TaskComplete
  \/ PeriodicCheck
  \/ SLAWarning
  \/ MigrationComplete
  \/ StateChangeComplete
  \/ MemoryWarning
  \/ Shutdown

Spec == Init /\ [][Next]_vars

SpecAllClasses == InitAllClasses /\ [][Next]_vars

SpecStray == InitStray /\ [][Next]_vars

(***************************************************************************)
(* CalculateTaskCPUUtilization on its own: one call for a task whose times *)
(* and instruction count are taken from small ranges.                      *)
(***************************************************************************)
ProbeTasks ==
  [ arrival : 0 .. MaxTime, target_completion : 0 .. MaxTime,
    total_instructions : 0 .. MaxInstructions ]

\* No scheduler runs: the variables of a run keep their initial values.
NoRun ==
  /\ Constructed
  /\ offered = {}
  /\ limit = 0
  /\ stray = FALSE

InitDemand ==
  /\ NoRun
  /\ probeTask \in ProbeTasks
  /\ probeDemand = -1
  /\ tierInput = [ totalMachines |-> 0, activeWorkload |-> 0,
                   systemLoad |-> [ num |-> 0, den |-> 1 ] ]
  /\ tierSizes = [ runningSize |-> -1, intermediateSize |-> -1 ]
  /\ NoEco /\ NoPredictive /\ NoGreedy

\* The one call of CalculateTaskCPUUtilization.
ComputeDemand ==
  /\ probeDemand = -1
  /\ probeDemand' = MIPSDemand(probeTask)
  /\ UNCHANGED << slaVars, probeTask, tierInput, tierSizes, eco, pred, greedy >>

NextDemand == ComputeDemand

SpecDemand == InitDemand /\ [][NextDemand]_vars

(***************************************************************************)
(* Tier-management (E-eco) scheduler, Scheduler.cpp 1-592: tier sizes.     *)
(***************************************************************************)
Max(a, b) == IF a >= b THEN a ELSE b

\* Arithmetic of the C++ type unsigned.
Unsigned(x) == x % (2 ^ UnsignedBits)

\* Scheduler::CalculateTierSizes.  systemLoad is the value of GetSystemLoad()
\* as the fraction num / den; (unsigned)(totalMachines * 0.6) is the integer
\* part of six tenths of totalMachines.  The result is the pair of output
\* parameters.
CalculateTierSizes(totalMachines, activeWorkload, systemLoad) ==
  LET fifth == Max((totalMachines * 2) \div 10, 2)
      first ==
        IF 10 * systemLoad.num > 7 * systemLoad.den
        THEN Max((totalMachines * 6) \div 10, 4)
        ELSE IF 10 * systemLoad.num < 3 * systemLoad.den
        THEN Max((totalMachines * 3) \div 10, 2)
        ELSE Max((totalMachines * 4) \div 10, 3)
      minimumRunning == Max(activeWorkload \div 4, 2)
      runningSize == Max(first, minimumRunning)
  IN  [ runningSize |-> runningSize,
        intermediateSize |->
          IF Unsigned(runningSize + fifth) > totalMachines
          THEN Unsigned(totalMachines - runningSize)
          ELSE fifth ]

\* Arguments of one call: a cluster size, a number of unfinished tasks and a
\* system load in tenths.
TierInputs ==
  [ totalMachines : 0 .. MaxMachines, activeWorkload : 0 .. MaxWorkload,
    systemLoad : [ num : 0 .. 10, den : {10} ] ]

InitTierSizes ==
  /\ NoRun
  /\ probeTask = [ arrival |-> 0, target_completion |-> 0, total_instructions |-> 0 ]
  /\ probeDemand = -1
  /\ tierInput \in TierInputs
  /\ tierSizes = [ runningSize |-> -1, intermediateSize |-> -1 ]
  /\ NoEco /\ NoPredictive /\ NoGreedy

\* The one call of CalculateTierSizes.
ComputeTierSizes ==
  /\ tierSizes.runningSize = -1
  /\ tierSizes' = CalculateTierSizes(tierInput.totalMachines,
                                     tierInput.activeWorkload,
                                     tierInput.systemLoad)
  /\ UNCHANGED << slaVars, probeTask, probeDemand, tierInput, eco, pred, greedy >>

NextTierSizes == ComputeTierSizes

SpecTierSizes == InitTierSizes /\ [][NextTierSizes]_vars

(***************************************************************************)
(* Tier-management (E-eco) scheduler, Scheduler.cpp 1-592, and the         *)
(* simulator it runs against.  The whole of it is the record eco:          *)
(*   machines, vms            vector<MachineId_t>, vector<VMId_t>          *)
(*   machineTiers             map<MachineId_t, HostTier>                   *)
(*   machineLoads             map<MachineId_t, unsigned>                   *)
(*   s_state, stateReq        S-state of every machine, and the S-state    *)
(*                            requested and not yet acknowledged           *)
(*   requested                the S-state requested last ("none": never)   *)
(*   memory_used              MachineInfo_t.memory_used                    *)
(*   vmHost, vmTasks          VMInfo_t.machine_id and .active_tasks of VM  *)
(*                            v, at index v + 1                            *)
(*   vmDown                   VMs that have been shut down                 *)
(*   taskClass, completed     as for the SLA-aware scheduler               *)
(*   steps, lastCall, calls   up-calls made, the last one, its down-calls  *)
(***************************************************************************)
\* The cluster: machine id m is EcoFleet[m + 1].
EcoFleet ==
  << [cpu |-> "RISCV", memory_size |-> 4],
     [cpu |-> "RISCV", memory_size |-> 4],
     [cpu |-> "RISCV", memory_size |-> 4],
     [cpu |-> "X86",   memory_size |-> 4],
     [cpu |-> "X86",   memory_size |-> 4] >>

EcoMachine_GetTotal == Len(EcoFleet)
EcoMachines == 0 .. (EcoMachine_GetTotal - 1)

\* The task classes of the input file.
EcoClasses == { 2, 4 }

\* (MachineId_t)-1.
NoSuchMachine == -1

GetTaskMemory(e, task_id) == TaskClasses[e.taskClass[task_id]].required_memory
RequiredCPUType(e, task_id) == TaskClasses[e.taskClass[task_id]].required_cpu

\* GetNumTasks counts every task of the run; IsTaskCompleted tells which are
\* finished.
UnfinishedTasks(e) == Cardinality(Tasks \ e.completed)

EcoMachine_GetInfo(e, machine_id) ==
  [ cpu |-> EcoFleet[machine_id + 1].cpu,
    memory_size |-> EcoFleet[machine_id + 1].memory_size,
    memory_used |-> e.memory_used[machine_id],
    s_state |-> e.s_state[machine_id] ]

\* Machine_SetState returns at once; the change is acknowledged later.
EcoMachine_SetState(e, machine_id, s) ==
  [ e EXCEPT !.stateReq[machine_id] = s,
             !.requested[machine_id] = s,
             !.calls = Append(@, [ op |-> "Machine_SetState",
                                   machine_id |-> machine_id, s_state |-> s ]) ]

\* VM_Create: the new VM has the next id and no host.
EcoNextVM(e) == Len(e.vmHost)
EcoVM_Create(e) ==
  [ e EXCEPT !.vmHost = Append(@, NoSuchMachine), !.vmTasks = Append(@, {}) ]

EcoVM_Attach(e, vm, machine_id) ==
  [ e EXCEPT !.vmHost[vm + 1] = machine_id,
             !.calls = Append(@, [ op |-> "VM_Attach", vm |-> vm,
                                   machine_id |-> machine_id,
                                   s_state |-> e.s_state[machine_id],
                                   stateReq |-> e.stateReq[machine_id] ]) ]

EcoVM_AddTask(e, vm, task_id) ==
  LET host == e.vmHost[vm + 1]
  IN  [ e EXCEPT !.vmTasks[vm + 1] = @ \cup { task_id },
                 !.memory_used[host] = Unsigned(@ + GetTaskMemory(e, task_id)),
                 !.calls = Append(@, [ op |-> "VM_AddTask", vm |-> vm,
                                       task_id |-> task_id,
                                       machine_id |-> host,
                                       s_state |-> e.s_state[host],
                                       stateReq |-> e.stateReq[host] ]) ]

\* VM_Shutdown shuts the VM down if it has no active task.
EcoVM_Shutdown(e, vm) ==
  LET host == e.vmHost[vm + 1]
  IN  [ e EXCEPT !.vmDown = IF e.vmTasks[vm + 1] = {} THEN @ \cup { vm } ELSE @,
                 !.calls = Append(@, [ op |-> "VM_Shutdown", vm |-> vm,
                                       machine_id |-> host,
                                       load |-> e.machineLoads[host] ]) ]

\* std::find on a vector: the first index (from 1) holding x, or Len + 1.
RECURSIVE FindFrom(_, _, _)
FindFrom(seq, x, i) ==
  IF i > Len(seq) THEN i ELSE IF seq[i] = x THEN i ELSE FindFrom(seq, x, i + 1)

Find(seq, x) == FindFrom(seq, x, 1)

\* vector::erase of the element at index i.
Erase(seq, i) == SubSeq(seq, 1, i - 1) \o SubSeq(seq, i + 1, Len(seq))

\* cpuTypeMachines[cpu]: the machines of a CPU type, by ascending id.
RECURSIVE MachinesOfTypeFrom(_, _)
MachinesOfTypeFrom(cpu, m) ==
  IF m >= EcoMachine_GetTotal THEN << >>
  ELSE IF EcoFleet[m + 1].cpu = cpu THEN << m >> \o MachinesOfTypeFrom(cpu, m + 1)
  ELSE MachinesOfTypeFrom(cpu, m + 1)

cpuTypeMachines(cpu) == MachinesOfTypeFrom(cpu, 0)

\* Scheduler::GetSystemLoad: used over total memory of the entries of
\* machines, as a fraction; 0.0 when there is no memory.
RECURSIVE SumMemory(_, _, _)
SumMemory(e, i, field) ==
  IF i > Len(e.machines) THEN 0
  ELSE EcoMachine_GetInfo(e, e.machines[i])[field] + SumMemory(e, i + 1, field)

GetSystemLoad(e) ==
  LET totalMemory == Unsigned(SumMemory(e, 1, "memory_size"))
      usedMemory == Unsigned(SumMemory(e, 1, "memory_used"))
  IN  IF totalMemory > 0 THEN [ num |-> usedMemory, den |-> totalMemory ]
      ELSE [ num |-> 0, den |-> 1 ]

\* Scheduler::IsMachineSuitable.
IsMachineSuitable(e, machineId, taskId) ==
  LET info == EcoMachine_GetInfo(e, machineId)
  IN  /\ info.cpu = RequiredCPUType(e, taskId)
      /\ ~ (Unsigned(info.memory_used + GetTaskMemory(e, taskId)) > info.memory_size)

\* Scheduler::FindCompatibleMachine.
RECURSIVE FindCompatibleFrom(_, _, _, _)
FindCompatibleFrom(e, group, i, includeIntermediate) ==
  IF i > Len(group) THEN NoSuchMachine
  ELSE IF e.machineTiers[group[i]] = "RUNNING" THEN group[i]
  ELSE IF includeIntermediate /\ e.machineTiers[group[i]] = "INTERMEDIATE" THEN group[i]
  ELSE FindCompatibleFrom(e, group, i + 1, includeIntermediate)

FindCompatibleMachine(e, cpuType, includeIntermediate) ==
  FindCompatibleFrom(e, cpuTypeMachines(cpuType), 1, includeIntermediate)

\* Scheduler::ActivateMachine.
ActivateMachine(e, machineId) ==
  IF e.machineTiers[machineId] = "INTERMEDIATE"
  THEN LET e1 == EcoMachine_SetState(e, machineId, "S0")
           e2 == [ e1 EXCEPT !.machineTiers[machineId] = "RUNNING" ]
       IN  IF Find(e2.machines, machineId) > Len(e2.machines)
           THEN LET vmId == EcoNextVM(e2)
                    e3 == [ EcoVM_Create(e2) EXCEPT
                              !.machines = Append(@, machineId),
                              !.vms = Append(@, vmId) ]
                IN  EcoVM_Attach(e3, vmId, machineId)
           ELSE e2
  ELSE e

\* Scheduler::DeactivateMachine.
DeactivateMachine(e, machineId) ==
  IF e.machineTiers[machineId] = "RUNNING" /\ e.machineLoads[machineId] = 0
  THEN LET e1 == EcoMachine_SetState(e, machineId, "S3")
           e2 == [ e1 EXCEPT !.machineTiers[machineId] = "INTERMEDIATE" ]
           index == Find(e2.machines, machineId)
       IN  IF index <= Len(e2.machines)
           THEN [ EcoVM_Shutdown(e2, e2.vms[index]) EXCEPT
                    !.vms = Erase(@, index),
                    !.machines = Erase(@, index) ]
           ELSE e2
  ELSE e

\* AdjustTiers, lines 278-284: a loop over machineTiers (ascending machine
\* id) that activates INTERMEDIATE machines while toActivate > 0.
RECURSIVE ActivateLoop(_, _, _)
ActivateLoop(e, m, toActivate) ==
  IF m >= EcoMachine_GetTotal THEN e
  ELSE IF e.machineTiers[m] = "INTERMEDIATE" /\ toActivate > 0
  THEN ActivateLoop(ActivateMachine(e, m), m + 1, toActivate - 1)
  ELSE ActivateLoop(e, m + 1, toActivate)

\* AdjustTiers, lines 286-292: the entries of machines whose load is 0.
RECURSIVE LoadPairsFrom(_, _)
LoadPairsFrom(e, i) ==
  IF i > Len(e.machines) THEN << >>
  ELSE IF e.machineLoads[e.machines[i]] = 0
  THEN << e.machines[i] >> \o LoadPairsFrom(e, i + 1)
  ELSE LoadPairsFrom(e, i + 1)

\* AdjustTiers, lines 299-305: a loop over the sorted loadPairs that
\* deactivates while toDeactivate > 0.
RECURSIVE DeactivateLoop(_, _, _)
DeactivateLoop(e, loadPairs, toDeactivate) ==
  IF loadPairs = << >> THEN e
  ELSE IF toDeactivate > 0
  THEN DeactivateLoop(DeactivateMachine(e, Head(loadPairs)), Tail(loadPairs),
                      toDeactivate - 1)
  ELSE DeactivateLoop(e, Tail(loadPairs), toDeactivate)

\* The elements of seq at the positions in P, in the order of seq.
RECURSIVE Pick(_, _, _)
Pick(seq, P, i) ==
  IF i > Len(seq) THEN << >>
  ELSE IF i \in P THEN << seq[i] >> \o Pick(seq, P, i + 1)
  ELSE Pick(seq, P, i + 1)

\* std::sort at lines 294-297 compares loads that are all 0, so any entry of
\* loadPairs may come to the front: the entries the loop reaches are any
\* toDeactivate of them (their order among themselves changes only the order
\* of the down-calls).
SortedFronts(loadPairs, toDeactivate) ==
  LET k == IF toDeactivate < Len(loadPairs) THEN toDeactivate ELSE Len(loadPairs)
  IN  { Pick(loadPairs, P, 1) :
          P \in { Q \in SUBSET (1 .. Len(loadPairs)) : Cardinality(Q) = k } }

\* AdjustTiers, lines 311-323: OFF machines are put in standby.
RECURSIVE WakeLoop(_, _, _)
WakeLoop(e, m, toWake) ==
  IF m >= EcoMachine_GetTotal THEN e
  ELSE IF e.machineTiers[m] = "SWITCHED_OFF" /\ toWake > 0
  THEN WakeLoop([ EcoMachine_SetState(e, m, "S3") EXCEPT
                    !.machineTiers[m] = "INTERMEDIATE",
                    !.machineLoads[m] = 0 ],
                m + 1, toWake - 1)
  ELSE WakeLoop(e, m + 1, toWake)

\* The loop without the request to power the machine off.
RECURSIVE PowerOffLoop_NoRequest(_, _, _)
PowerOffLoop_NoRequest(e, m, toPowerOff) ==
  IF m >= EcoMachine_GetTotal THEN e
  ELSE IF e.machineTiers[m] = "INTERMEDIATE" /\ toPowerOff > 0
  THEN PowerOffLoop_NoRequest([ e EXCEPT !.machineTiers[m] = "SWITCHED_OFF",
                                         !.machineLoads[m] = 0 ],
                              m + 1, toPowerOff - 1)
  ELSE PowerOffLoop_NoRequest(e, m + 1, toPowerOff)

\* AdjustTiers, lines 324-337: standby machines are powered off.
RECURSIVE PowerOffLoop(_, _, _)
PowerOffLoop(e, m, toPowerOff) ==
  IF m >= EcoMachine_GetTotal THEN e
  ELSE IF e.machineTiers[m] = "INTERMEDIATE" /\ toPowerOff > 0
  THEN PowerOffLoop([ EcoMachine_SetState(e, m, "S5") EXCEPT
                        !.machineTiers[m] = "SWITCHED_OFF",
                        !.machineLoads[m] = 0 ],
                    m + 1, toPowerOff - 1)
  ELSE PowerOffLoop(e, m + 1, toPowerOff)

TierCount(e, tier) == Cardinality({ m \in EcoMachines : e.machineTiers[m] = tier })

\* Scheduler::AdjustTiers: the set of worlds it can leave.
AdjustTiers(e) ==
  LET sizes == CalculateTierSizes(EcoMachine_GetTotal, UnfinishedTasks(e),
                                  GetSystemLoad(e))
      desiredRunning == sizes.runningSize
      desiredIntermediate == sizes.intermediateSize
      currentRunning == TierCount(e, "RUNNING")
      currentIntermediate == TierCount(e, "INTERMEDIATE")
      currentTotal == Unsigned(currentRunning + currentIntermediate)
      desiredTotal == Unsigned(desiredRunning + desiredIntermediate)
      resized ==
        IF currentRunning < desiredRunning
        THEN { ActivateLoop(e, 0, desiredRunning - currentRunning) }
        ELSE IF currentRunning > desiredRunning
        THEN { DeactivateLoop(e, front, currentRunning - desiredRunning) :
                 front \in SortedFronts(LoadPairsFrom(e, 1),
                                        currentRunning - desiredRunning) }
        ELSE { e }
      Rebalance(e1) ==
        IF currentTotal < desiredTotal
        THEN WakeLoop(e1, 0, desiredTotal - currentTotal)
        ELSE IF currentIntermediate > desiredIntermediate
        THEN PowerOffLoop(e1, 0, currentIntermediate - desiredIntermediate)
        ELSE e1
  IN  { Rebalance(e1) : e1 \in resized }

\* Scheduler::Init, lines 36-56: machine number machineCount + 1 of the walk
\* over cpuTypeMachines.
RECURSIVE EcoInitLoop(_, _, _, _)
EcoInitLoop(e, walk, i, machineCount) ==
  LET runningMachines == Max(EcoMachine_GetTotal \div 3, 4)
      intermediateMachines == Max(EcoMachine_GetTotal \div 6, 2)
      machineId == walk[i]
  IN  IF i > Len(walk) THEN e
      ELSE IF machineCount < runningMachines
      THEN EcoInitLoop([ EcoVM_Create(e) EXCEPT
                           !.machines = Append(@, machineId),
                           !.vms = Append(@, EcoNextVM(e)),
                           !.machineTiers[machineId] = "RUNNING",
                           !.machineLoads[machineId] = 0 ],
                       walk, i + 1, machineCount + 1)
      ELSE IF machineCount < runningMachines + intermediateMachines
      THEN EcoInitLoop([ EcoMachine_SetState(e, machineId, "S3") EXCEPT
                           !.machineTiers[machineId] = "INTERMEDIATE",
                           !.machineLoads[machineId] = 0 ],
                       walk, i + 1, machineCount + 1)
      ELSE EcoInitLoop([ EcoMachine_SetState(e, machineId, "S5") EXCEPT
                           !.machineTiers[machineId] = "SWITCHED_OFF",
                           !.machineLoads[machineId] = 0 ],
                       walk, i + 1, machineCount)

\* Scheduler::Init, lines 58-60.
RECURSIVE EcoAttachLoop(_, _)
EcoAttachLoop(e, i) ==
  IF i > Len(e.machines) THEN e
  ELSE EcoAttachLoop(EcoVM_Attach(e, e.vms[i], e.machines[i]), i + 1)

\* The simulator before InitScheduler: every machine is up, nothing runs.
EcoBoot ==
  [ machines |-> << >>, vms |-> << >>,
    machineTiers |-> [ m \in EcoMachines |-> "RUNNING" ],
    machineLoads |-> [ m \in EcoMachines |-> 0 ],
    s_state |-> [ m \in EcoMachines |-> "S0" ],
    stateReq |-> [ m \in EcoMachines |-> "none" ],
    requested |-> [ m \in EcoMachines |-> "none" ],
    memory_used |-> [ m \in EcoMachines |-> 0 ],
    vmHost |-> << >>, vmTasks |-> << >>, vmDown |-> {},
    taskClass |-> [ t \in Tasks |-> 0 ], completed |-> {},
    steps |-> 0, lastCall |-> [ op |-> "Init" ], calls |-> << >> ]

\* Scheduler::Init.  The walk over the map cpuTypeMachines visits the CPU
\* types in the order of the enumeration CPUType_t, which SimTypes.h
\* declares: either order of the two types of the cluster.
EcoInitOp(walk) == EcoAttachLoop(EcoInitLoop(EcoBoot, walk, 1, 0), 1)

EcoWalks ==
  { cpuTypeMachines("RISCV") \o cpuTypeMachines("X86"),
    cpuTypeMachines("X86") \o cpuTypeMachines("RISCV") }

\* Scheduler::NewTask, lines 100-116: the first RUNNING machine of machines
\* that suits the task, as an index of machines, or Len + 1.
RECURSIVE FirstSuitable(_, _, _)
FirstSuitable(e, task_id, i) ==
  IF i > Len(e.machines) THEN i
  ELSE IF /\ e.machineTiers[e.machines[i]] = "RUNNING"
          /\ IsMachineSuitable(e, e.machines[i], task_id)
  THEN i
  ELSE FirstSuitable(e, task_id, i + 1)

\* NewTask whose fallback charges the machine it found without activating it.
EcoNewTaskOp_NoActivate(e, task_id) ==
  LET taskMemory == GetTaskMemory(e, task_id)
      requiredCPU == RequiredCPUType(e, task_id)
      i == FirstSuitable(e, task_id, 1)
  IN  IF i <= Len(e.machines)
      THEN LET machineId == e.machines[i]
               vmId == e.vms[Find(e.machines, machineId)]
               e1 == EcoVM_AddTask(e, vmId, task_id)
           IN  AdjustTiers([ e1 EXCEPT !.machineLoads[machineId] =
                                         Unsigned(@ + taskMemory) ])
      ELSE LET machineId == FindCompatibleMachine(e, requiredCPU, TRUE)
           IN  IF machineId # NoSuchMachine
               THEN LET vmId == EcoNextVM(e)
                        e2 == [ EcoVM_Create(e) EXCEPT
                                  !.vms = Append(@, vmId),
                                  !.machines = Append(@, machineId) ]
                        e3 == EcoVM_Attach(e2, vmId, machineId)
                        e4 == EcoVM_AddTask(e3, vmId, task_id)
                    IN  AdjustTiers([ e4 EXCEPT !.machineLoads[machineId] =
                                                  Unsigned(@ + taskMemory) ])
               ELSE { e }

\* Scheduler::NewTask: the set of worlds it can leave.
EcoNewTaskOp(e, task_id) ==
  LET taskMemory == GetTaskMemory(e, task_id)
      requiredCPU == RequiredCPUType(e, task_id)
      i == FirstSuitable(e, task_id, 1)
  IN  IF i <= Len(e.machines)
      THEN LET machineId == e.machines[i]
               vmId == e.vms[Find(e.machines, machineId)]
               e1 == EcoVM_AddTask(e, vmId, task_id)
           IN  AdjustTiers([ e1 EXCEPT !.machineLoads[machineId] =
                                         Unsigned(@ + taskMemory) ])
      ELSE LET machineId == FindCompatibleMachine(e, requiredCPU, TRUE)
           IN  IF machineId # NoSuchMachine
               THEN LET e1 == ActivateMachine(e, machineId)
                        vmId == EcoNextVM(e1)
                        e2 == [ EcoVM_Create(e1) EXCEPT
                                  !.vms = Append(@, vmId),
                                  !.machines = Append(@, machineId) ]
                        e3 == EcoVM_Attach(e2, vmId, machineId)
                        e4 == EcoVM_AddTask(e3, vmId, task_id)
                    IN  AdjustTiers([ e4 EXCEPT !.machineLoads[machineId] =
                                                  Unsigned(@ + taskMemory) ])
               ELSE { e }

\* Scheduler::TaskComplete, lines 203-214: the first index of machines whose
\* VM lists the task, or Len + 1.
RECURSIVE FirstHolding(_, _, _)
FirstHolding(e, task_id, i) ==
  IF i > Len(e.machines) THEN i
  ELSE IF task_id \in e.vmTasks[e.vms[i] + 1] THEN i
  ELSE FirstHolding(e, task_id, i + 1)

\* Scheduler::TaskComplete: the set of worlds it can leave.
EcoTaskCompleteOp(e, task_id) ==
  LET i == FirstHolding(e, task_id, 1)
  IN  IF i <= Len(e.machines)
      THEN AdjustTiers([ e EXCEPT !.machineLoads[e.machines[i]] =
                                    Unsigned(@ - GetTaskMemory(e, task_id)) ])
      ELSE { e }

\* Scheduler::PeriodicCheck.
EcoPeriodicCheckOp(e) == AdjustTiers(e)

\* Scheduler::Shutdown.
RECURSIVE EcoShutdownLoop(_, _)
EcoShutdownLoop(e, i) ==
  IF i > Len(e.vms) THEN e
  ELSE EcoShutdownLoop(EcoVM_Shutdown(e, e.vms[i]), i + 1)

EcoShutdownOp(e) == EcoShutdownLoop(e, 1)

(***************************************************************************)
(* Up-calls of the simulator into the E-eco scheduler.                     *)
(***************************************************************************)
\* An up-call starts with an empty list of down-calls.
EcoWorld == [ eco EXCEPT !.calls = << >> ]

\* The run is not over and has up-calls left.
EcoRunning == eco.steps < EcoSteps /\ eco.lastCall.op # "Shutdown"

EcoCommit(e, call) ==
  /\ eco' = [ e EXCEPT !.steps = @ + 1, !.lastCall = call ]
  /\ UNCHANGED << slaVars, probeTask, probeDemand, tierInput, tierSizes, pred, greedy >>

\* The tasks that run on some VM.
EcoActiveTasks == UNION { eco.vmTasks[i] : i \in DOMAIN eco.vmTasks }

\* The VM that runs task t.
EcoVMOf(t) == CHOOSE v \in 0 .. (Len(eco.vmTasks) - 1) : t \in eco.vmTasks[v + 1]

\* HandleNewTask: the next task of the run arrives.
EcoNewTask ==
  /\ EcoRunning
  /\ \E t \in Tasks, c \in EcoClasses :
       /\ eco.taskClass[t] = 0
       /\ \A u \in Tasks : u < t => eco.taskClass[u] # 0
       /\ \E e \in EcoNewTaskOp([ EcoWorld EXCEPT !.taskClass[t] = c ], t) :
            EcoCommit(e, [ op |-> "NewTask", task_id |-> t ])

\* HandleTaskCompletion: a task on a VM finishes and frees its memory.  The
\* VM may or may not still list the task when the scheduler is told.
EcoTaskComplete ==
  /\ EcoRunning
  /\ \E t \in EcoActiveTasks, listed \in BOOLEAN :
       LET v == EcoVMOf(t)
           done == [ EcoWorld EXCEPT
                       !.completed = @ \cup { t },
                       !.memory_used[eco.vmHost[v + 1]] =
                         Unsigned(@ - GetTaskMemory(eco, t)) ]
           seen == IF listed THEN done
                   ELSE [ done EXCEPT !.vmTasks[v + 1] = @ \ { t } ]
       IN  \E e \in EcoTaskCompleteOp(seen, t) :
             EcoCommit([ e EXCEPT !.vmTasks[v + 1] = @ \ { t } ],
                       [ op |-> "TaskComplete", task_id |-> t,
                         machine_id |-> eco.vmHost[v + 1] ])

\* SchedulerCheck.
EcoPeriodicCheck ==
  /\ EcoRunning
  /\ \E e \in EcoPeriodicCheckOp(EcoWorld) :
       EcoCommit(e, [ op |-> "PeriodicCheck" ])

\* StateChangeComplete: the simulator acknowledges the S-state requested for
\* a machine; the scheduler only writes a log line (lines 583-585).
EcoStateChangeComplete ==
  /\ EcoRunning
  /\ \E m \in EcoMachines :
       /\ eco.stateReq[m] # "none"
       /\ EcoCommit([ EcoWorld EXCEPT !.s_state[m] = eco.stateReq[m],
                                      !.stateReq[m] = "none" ],
                    [ op |-> "StateChangeComplete", machine_id |-> m ])

\* MemoryWarning: a machine's memory is overcommitted; the scheduler only
\* writes a log line (lines 511-513).
EcoMemoryWarning ==
  /\ EcoRunning
  /\ \E m \in EcoMachines :
       /\ eco.memory_used[m] > EcoFleet[m + 1].memory_size
       /\ EcoCommit(EcoWorld, [ op |-> "MemoryWarning", machine_id |-> m ])

\* SLAWarning: a running task is at risk; the scheduler only writes a log
\* line (lines 571-573).
EcoSLAWarning ==
  /\ EcoRunning
  /\ \E t \in EcoActiveTasks :
       EcoCommit(EcoWorld, [ op |-> "SLAWarning", task_id |-> t ])

\* SimulationComplete: the run ends.
EcoShutdown ==
  /\ EcoRunning
  /\ EcoCommit(EcoShutdownOp(EcoWorld), [ op |-> "Shutdown" ])

EcoInit ==
  /\ NoRun
  /\ NoProbe
  /\ NoPredictive /\ NoGreedy
  /\ \E walk \in EcoWalks : eco = EcoInitOp(walk)

EcoNext ==
  \/ EcoNewTask
  \/ EcoTaskComplete
  \/ EcoPeriodicCheck
  \/ EcoStateChangeComplete
  \/ EcoMemoryWarning
  \/ EcoSLAWarning
  \/ EcoShutdown

EcoSpec == EcoInit /\ [][EcoNext]_vars

(***************************************************************************)
(* Predictive scheduler, Scheduler.cpp 1192-1668: the response-time trend   *)
(* and the size of one VM.  pred is a record with the fields                *)
(*   history   vmResponseTimes[vm], the responseTime of every entry         *)
(*   average   vmAverageResponseTime[vm]                                    *)
(*   slope     vmResponseTimeSlope[vm], the double num / den (den > 0)      *)
(*   size      vmSizes[vm]                                                  *)
(*   branch    what the last TaskComplete did in AdjustVMSize               *)
(*   sizeBefore  vmSizes[vm] when that TaskComplete began                   *)
(*   p_state   argument of its Machine_SetCorePerformance calls (-1: none)  *)
(***************************************************************************)
\* Arithmetic of Time_t.
TimeWrap(x) == x % (2 ^ TimeBits)

\* Sum of history[i .. j] in Time_t.
RECURSIVE TotalOf(_, _, _)
TotalOf(history, i, j) ==
  IF i > j THEN 0 ELSE TimeWrap(history[i] + TotalOf(history, i + 1, j))

\* Averages of the two halves as CalculateResponseTimeSlope computes them.
FirstHalfAvg(history) ==
  LET midpoint == Len(history) \div 2
  IN  TotalOf(history, 1, midpoint) \div midpoint

SecondHalfAvg(history) ==
  LET midpoint == Len(history) \div 2
  IN  TotalOf(history, midpoint + 1, Len(history))
        \div (Len(history) - midpoint)

\* Scheduler::CalculateResponseTimeSlope: the difference of the averages is
\* taken in Time_t and only then converted to double.
CalculateResponseTimeSlope(history) ==
  IF Len(history) < 2 THEN [ num |-> 0, den |-> 1 ]
  ELSE LET firstHalfAvg == FirstHalfAvg(history)
           secondHalfAvg == SecondHalfAvg(history)
       IN  IF firstHalfAvg = 0 THEN [ num |-> 0, den |-> 1 ]
           ELSE [ num |-> TimeWrap(secondHalfAvg - firstHalfAvg),
                  den |-> firstHalfAvg ]

\* Scheduler::UpdateResponseTimeData.
UpdateResponseTimeData(p, responseTime) ==
  LET kept == IF Len(p.history) >= HistorySize THEN Tail(p.history)
              ELSE p.history
      history == Append(kept, responseTime)
  IN  [ p EXCEPT !.history = history,
                 !.average = TotalOf(history, 1, Len(history)) \div Len(history),
                 !.slope = CalculateResponseTimeSlope(history) ]

\* Scheduler::AdjustVMSize; the thresholds are 0.1 and -0.1 (Scheduler.hpp
\* 119-120).  The ConsolidateVMs call of the decrease branch touches no field
\* of pred.
AdjustVMSize(p) ==
  IF 10 * p.slope.num > p.slope.den
  THEN IF p.size < 3
       THEN [ p EXCEPT !.size = p.size + 1, !.branch = "increase",
                       !.p_state = 4 - (p.size + 1) ]
       ELSE [ p EXCEPT !.branch = "increase" ]
  ELSE IF 10 * p.slope.num < 0 - p.slope.den
  THEN IF p.size > 1
       THEN [ p EXCEPT !.size = p.size - 1, !.branch = "decrease",
                       !.p_state = 4 - (p.size - 1) ]
       ELSE [ p EXCEPT !.branch = "decrease" ]
  ELSE [ p EXCEPT !.branch = "none" ]

\* Scheduler::TaskComplete (1381-1420) for a task of the VM whose start time
\* is known.  check tells whether task_count is a multiple of
\* VM_CHECK_INTERVAL.
PredTaskCompleteOp(p, responseTime, check) ==
  LET begun == [ p EXCEPT !.sizeBefore = p.size, !.branch = "not run",
                          !.p_state = -1 ]
      updated == UpdateResponseTimeData(begun, responseTime)
  IN  IF check THEN AdjustVMSize(updated) ELSE updated

\* Scheduler::Init (1207-1244): the VM has size 1, slope 0.0 and no history.
PredInit ==
  /\ NoRun
  /\ NoProbe
  /\ NoEco
  /\ NoGreedy
  /\ pred = [ history |-> << >>, average |-> 0,
              slope |-> [ num |-> 0, den |-> 1 ], size |-> 1,
              branch |-> "not run", sizeBefore |-> 1, p_state |-> -1 ]

\* HandleTaskCompletion: a task of the VM completes.
PredTaskComplete ==
  /\ \E responseTime \in 0 .. MaxResponse, check \in BOOLEAN :
       pred' = PredTaskCompleteOp(pred, responseTime, check)
  /\ UNCHANGED << slaVars, probeTask, probeDemand, tierInput, tierSizes, eco,
                  greedy >>

PredNext == PredTaskComplete

PredSpec == PredInit /\ [][PredNext]_vars

(***************************************************************************)
(* Greedy allocation scheduler (a translation unit of its own) and the      *)
(* simulator it runs against.  The whole of it is the record greedy:        *)
(*   machines, vms            vector<MachineId_t>, vector<VMId_t>           *)
(*   machineUtilization       map<MachineId_t, float>, in units of          *)
(*                            1 / memory_size (every machine of the cluster *)
(*                            has the same memory_size, a power of two, so  *)
(*                            the floats are exact)                         *)
(*   machineToVMMap           map<MachineId_t, VMId_t>                      *)
(*   taskToMachineMap         map<TaskId_t, MachineId_t>; NoSuchMachine     *)
(*                            stands for an absent key                      *)
(*   s_state, stateReq        S-state of every machine, and the S-state     *)
(*                            requested and not yet acknowledged            *)
(*   memory_used              MachineInfo_t.memory_used                     *)
(*   vmHost, vmCpu, vmTasks   VMInfo_t.machine_id, .cpu and .active_tasks   *)
(*                            of VM v, at index v + 1                       *)
(*   vmDown                   VMs that have been shut down                  *)
(*   taskClass, completed     as for the SLA-aware scheduler                *)
(*   counts                   the static counter of SchedulerCheck          *)
(*   steps, lastCall, calls   up-calls made, the last one, its down-calls   *)
(* The cluster is EcoFleet.                                                 *)
(***************************************************************************)
\* The task classes of the input file.
GreedyClasses == { 1, 4 }

\* memory_size of every machine.
GreedyMemorySize == EcoFleet[1].memory_size

InSeq(x, seq) == \E i \in 1 .. Len(seq) : seq[i] = x

RemoveSeq(seq, x) == SelectSeq(seq, LAMBDA y : y # x)

\* The VMs (index v + 1) attached to a machine.
GreedyVMsOn(g, machine_id) ==
  { i \in 1 .. Len(g.vmHost) : g.vmHost[i] = machine_id }

GreedyMachine_GetInfo(g, machine_id) ==
  [ cpu |-> EcoFleet[machine_id + 1].cpu,
    memory_size |-> EcoFleet[machine_id + 1].memory_size,
    memory_used |-> g.memory_used[machine_id],
    s_state |-> g.s_state[machine_id],
    active_tasks |->
      Cardinality({ t \in Tasks :
                      \E i \in GreedyVMsOn(g, machine_id) : InSeq(t, g.vmTasks[i]) }) ]

\* Machine_SetState returns at once; the change is acknowledged later.
GreedyMachine_SetState(g, machine_id, s) ==
  [ g EXCEPT !.stateReq[machine_id] = s,
             !.calls = Append(@, [ op |-> "Machine_SetState",
                                   machine_id |-> machine_id, s_state |-> s ]) ]

\* VM_Create: the new VM has the next id and no host.
GreedyNextVM(g) == Len(g.vmHost)
GreedyVM_Create(g, cpu) ==
  [ g EXCEPT !.vmHost = Append(@, NoSuchMachine), !.vmCpu = Append(@, cpu),
             !.vmTasks = Append(@, << >>) ]

GreedyVM_Attach(g, vm, machine_id) ==
  [ g EXCEPT !.vmHost[vm + 1] = machine_id,
             !.calls = Append(@, [ op |-> "VM_Attach", vm |-> vm,
                                   machine_id |-> machine_id ]) ]

\* VM_AddTask throws when the host is not up, unless the simulator is
\* lenient about it.
GreedyAccepts(g, vm, lenient) == g.s_state[g.vmHost[vm + 1]] = "S0" \/ lenient

GreedyVM_AddTask(g, vm, task_id) ==
  LET host == g.vmHost[vm + 1]
  IN  [ g EXCEPT !.vmTasks[vm + 1] = Append(@, task_id),
                 !.memory_used[host] = Unsigned(@ + GetTaskMemory(g, task_id)),
                 !.calls = Append(@, [ op |-> "VM_AddTask", vm |-> vm,
                                       task_id |-> task_id,
                                       machine_id |-> host ]) ]

\* VM_RemoveTask of a task the VM runs; for any other task it throws.
GreedyVM_RemoveTask(g, vm, task_id) ==
  LET host == g.vmHost[vm + 1]
  IN  [ g EXCEPT !.vmTasks[vm + 1] = RemoveSeq(@, task_id),
                 !.memory_used[host] = Unsigned(@ - GetTaskMemory(g, task_id)),
                 !.calls = Append(@, [ op |-> "VM_RemoveTask", vm |-> vm,
                                       task_id |-> task_id,
                                       machine_id |-> host ]) ]

\* VM_Shutdown shuts the VM down if it has no active task.
GreedyVM_Shutdown(g, vm) ==
  [ g EXCEPT !.vmDown = IF g.vmTasks[vm + 1] = << >> THEN @ \cup { vm } ELSE @,
             !.calls = Append(@, [ op |-> "VM_Shutdown", vm |-> vm ]) ]

\* Scheduler::CalculateMachineUtilization, in units of 1 / memory_size.
GreedyMachineUtilization(g, machine_id) == g.memory_used[machine_id]

\* Scheduler::CalculateTaskLoadFactor: the task's memory over the memory of
\* the first machine that is not powered off, or 1.0 if there is none.
GreedyTaskLoadFactor(g, task_id) ==
  IF \E i \in 1 .. Len(g.machines) : g.s_state[g.machines[i]] # "S5"
  THEN GetTaskMemory(g, task_id)
  ELSE GreedyMemorySize

\* The test both placement loops apply to a machine: utilisation plus load
\* factor below 1.0 and enough free memory.
GreedyFits(g, machine_id, util, load, task_id) ==
  /\ util + load < GreedyMemorySize
  /\ g.memory_used[machine_id] + GetTaskMemory(g, task_id)
       <= EcoFleet[machine_id + 1].memory_size

\* Scheduler::FindVMForMachine: the world after the call and the VM returned.
GreedyFindVMForMachine(g, machine_id, cpuType) ==
  IF /\ g.machineToVMMap[machine_id] # NoSuchMachine
     /\ g.vmCpu[g.machineToVMMap[machine_id] + 1] = cpuType
  THEN [ g |-> g, vm |-> g.machineToVMMap[machine_id] ]
  ELSE LET info == GreedyMachine_GetInfo(g, machine_id)
           cpu == IF info.cpu # cpuType THEN info.cpu ELSE cpuType
           newVM == GreedyNextVM(g)
           attached == GreedyVM_Attach(GreedyVM_Create(g, cpu), newVM, machine_id)
       IN  [ g |-> [ attached EXCEPT !.machineToVMMap[machine_id] = newVM ],
             vm |-> newVM ]

\* Scheduler::CheckAndTurnOffUnusedMachines, from index i of machines.
RECURSIVE GreedyTurnOffLoop(_, _)
GreedyTurnOffLoop(g, i) ==
  IF i > Len(g.machines) THEN g
  ELSE LET machine == g.machines[i]
           info == GreedyMachine_GetInfo(g, machine)
       IN  IF info.s_state = "S5" THEN GreedyTurnOffLoop(g, i + 1)
           ELSE IF g.machineUtilization[machine] = 0 \/ info.active_tasks = 0
           THEN GreedyTurnOffLoop(GreedyMachine_SetState(g, machine, "S5"), i + 1)
           ELSE GreedyTurnOffLoop(g, i + 1)

CheckAndTurnOffUnusedMachines(g) == GreedyTurnOffLoop(g, 1)

\* Scheduler::GetSortedMachinesByUtilization: std::sort leaves machines of
\* equal utilisation in any order, so the result is one of these sequences of
\* (machine, utilisation) pairs.
RECURSIVE GreedyOrders(_, _)
GreedyOrders(g, S) ==
  IF S = {} THEN { << >> }
  ELSE LET least == { m \in S : \A n \in S :
                        GreedyMachineUtilization(g, m) <= GreedyMachineUtilization(g, n) }
       IN  UNION { { << [ first |-> m, second |-> GreedyMachineUtilization(g, m) ] >> \o rest :
                       rest \in GreedyOrders(g, S \ { m }) } : m \in least }

GetSortedMachinesByUtilization(g) ==
  GreedyOrders(g, { m \in EcoMachines : InSeq(m, g.machines) /\ g.s_state[m] # "S5" })

\* Scheduler::MigrateTask: the world after the call and the value returned.
\* It writes neither taskToMachineMap nor machineUtilization.
MigrateTask(g, taskId, targetMachineId, lenient) ==
  IF g.taskToMachineMap[taskId] = NoSuchMachine THEN [ g |-> g, ok |-> FALSE ]
  ELSE LET sourceMachineId == g.taskToMachineMap[taskId]
           requiredCPU == RequiredCPUType(g, taskId)
           src == GreedyFindVMForMachine(g, sourceMachineId, requiredCPU)
           tgt == GreedyFindVMForMachine(src.g, targetMachineId, requiredCPU)
       IN  IF ~InSeq(taskId, tgt.g.vmTasks[src.vm + 1])
           THEN [ g |-> tgt.g, ok |-> FALSE ]
           ELSE LET removed == GreedyVM_RemoveTask(tgt.g, src.vm, taskId)
                IN  IF ~GreedyAccepts(removed, tgt.vm, lenient)
                    THEN [ g |-> removed, ok |-> FALSE ]
                    ELSE [ g |-> GreedyVM_AddTask(removed, tgt.vm, taskId),
                           ok |-> TRUE ]

\* Scheduler::Init: one VM per machine that is not powered off.
RECURSIVE GreedyInitLoop(_, _)
GreedyInitLoop(g, i) ==
  IF i >= EcoMachine_GetTotal THEN g
  ELSE IF GreedyMachine_GetInfo(g, i).s_state = "S5" THEN GreedyInitLoop(g, i + 1)
  ELSE LET vm == GreedyNextVM(g)
           created == GreedyVM_Create(g, GreedyMachine_GetInfo(g, i).cpu)
       IN  GreedyInitLoop([ created EXCEPT
                              !.machines = Append(@, i),
                              !.vms = Append(@, vm),
                              !.machineUtilization[i] = 0,
                              !.machineToVMMap[i] = vm ], i + 1)

RECURSIVE GreedyAttachLoop(_, _)
GreedyAttachLoop(g, i) ==
  IF i > Len(g.machines) THEN g
  ELSE GreedyAttachLoop(GreedyVM_Attach(g, g.vms[i], g.machines[i]), i + 1)

\* The simulator before InitScheduler: every machine is up.
GreedyBoot ==
  [ machines |-> << >>, vms |-> << >>,
    machineUtilization |-> [ m \in EcoMachines |-> 0 ],
    machineToVMMap |-> [ m \in EcoMachines |-> NoSuchMachine ],
    taskToMachineMap |-> [ t \in Tasks |-> NoSuchMachine ],
    s_state |-> [ m \in EcoMachines |-> "S0" ],
    stateReq |-> [ m \in EcoMachines |-> "none" ],
    memory_used |-> [ m \in EcoMachines |-> 0 ],
    vmHost |-> << >>, vmCpu |-> << >>, vmTasks |-> << >>, vmDown |-> {},
    taskClass |-> [ t \in Tasks |-> 0 ], completed |-> {}, counts |-> 0,
    steps |-> 0, lastCall |-> [ op |-> "Init" ], calls |-> << >> ]

GreedyInitOp == [ GreedyAttachLoop(GreedyInitLoop(GreedyBoot, 0), 1) EXCEPT !.calls = << >> ]

\* The machine loop of Scheduler::NewTask, from index i of machines.
RECURSIVE GreedyNewTaskLoop(_, _, _, _, _)
GreedyNewTaskLoop(g, task_id, taskLoadFactor, lenient, i) ==
  IF i > Len(g.machines) THEN g
  ELSE LET machine == g.machines[i]
           info == GreedyMachine_GetInfo(g, machine)
           machineUtil == GreedyMachineUtilization(g, machine)
       IN  IF info.s_state = "S5" \/ info.cpu # RequiredCPUType(g, task_id)
           THEN GreedyNewTaskLoop(g, task_id, taskLoadFactor, lenient, i + 1)
           ELSE IF GreedyFits(g, machine, machineUtil, taskLoadFactor, task_id)
           THEN LET found == GreedyFindVMForMachine(g, machine,
                                                    RequiredCPUType(g, task_id))
                IN  IF GreedyAccepts(found.g, found.vm, lenient)
                    THEN [ GreedyVM_AddTask(found.g, found.vm, task_id) EXCEPT
                             !.machineUtilization[machine] =
                               machineUtil + taskLoadFactor,
                             !.taskToMachineMap[task_id] = machine ]
                    ELSE GreedyNewTaskLoop(found.g, task_id, taskLoadFactor,
                                           lenient, i + 1)
           ELSE GreedyNewTaskLoop(g, task_id, taskLoadFactor, lenient, i + 1)

\* Scheduler::NewTask.
GreedyNewTaskOp(g, task_id, lenient) ==
  CheckAndTurnOffUnusedMachines(
    GreedyNewTaskLoop(g, task_id, GreedyTaskLoadFactor(g, task_id), lenient, 1))

\* The first loop of Scheduler::HandleSLAViolation over sortedMachines, from
\* index i: the world after it and whether a migration succeeded.
RECURSIVE GreedySLASortedLoop(_, _, _, _, _, _, _)
GreedySLASortedLoop(g, taskId, machineId, taskLoadFactor, sortedMachines, lenient, i) ==
  IF i > Len(sortedMachines) THEN [ g |-> g, ok |-> FALSE ]
  ELSE LET candidateMachine == sortedMachines[i].first
           info == GreedyMachine_GetInfo(g, candidateMachine)
       IN  IF candidateMachine = machineId \/ info.cpu # RequiredCPUType(g, taskId)
           THEN GreedySLASortedLoop(g, taskId, machineId, taskLoadFactor,
                                    sortedMachines, lenient, i + 1)
           ELSE IF GreedyFits(g, candidateMachine, sortedMachines[i].second,
                              taskLoadFactor, taskId)
           THEN LET r == MigrateTask(g, taskId, candidateMachine, lenient)
                IN  IF r.ok THEN r
                    ELSE GreedySLASortedLoop(r.g, taskId, machineId, taskLoadFactor,
                                             sortedMachines, lenient, i + 1)
           ELSE GreedySLASortedLoop(g, taskId, machineId, taskLoadFactor,
                                    sortedMachines, lenient, i + 1)

\* Its second loop, over the machines that are powered off.
RECURSIVE GreedySLAWakeLoop(_, _, _, _)
GreedySLAWakeLoop(g, taskId, lenient, i) ==
  IF i > Len(g.machines) THEN g
  ELSE LET machine == g.machines[i]
           info == GreedyMachine_GetInfo(g, machine)
       IN  IF info.s_state = "S5" /\ info.cpu = RequiredCPUType(g, taskId)
           THEN LET r == MigrateTask(GreedyMachine_SetState(g, machine, "S0"),
                                     taskId, machine, lenient)
                IN  IF r.ok THEN r.g
                    ELSE GreedySLAWakeLoop(r.g, taskId, lenient, i + 1)
           ELSE GreedySLAWakeLoop(g, taskId, lenient, i + 1)

\* Scheduler::HandleSLAViolation called with machineId = (MachineId_t)-1, as
\* SLAWarning calls it: the worlds it can leave.
HandleSLAViolation(g, taskId, lenient) ==
  IF g.taskToMachineMap[taskId] = NoSuchMachine THEN { g }
  ELSE LET machineId == g.taskToMachineMap[taskId]
           taskLoadFactor == GreedyTaskLoadFactor(g, taskId)
       IN  { LET r == GreedySLASortedLoop(g, taskId, machineId, taskLoadFactor,
                                          sortedMachines, lenient, 1)
             IN  IF r.ok THEN r.g
                 ELSE GreedySLAWakeLoop(r.g, taskId, lenient, 1) :
               sortedMachines \in GetSortedMachinesByUtilization(g) }

\* The consolidation loop of Scheduler::TaskComplete, from index j of
\* sortedMachines down to 2.
RECURSIVE GreedyConsolidateLoop(_, _, _, _, _, _, _)
GreedyConsolidateLoop(g, taskToMigrate, taskLoad, vmId, sortedMachines, lenient, j) ==
  IF j < 2 THEN g
  ELSE LET lowUtilMachine == sortedMachines[1].first
           highUtilMachine == sortedMachines[j].first
           highUtilInfo == GreedyMachine_GetInfo(g, highUtilMachine)
       IN  IF highUtilInfo.cpu # RequiredCPUType(g, taskToMigrate)
           THEN GreedyConsolidateLoop(g, taskToMigrate, taskLoad, vmId,
                                      sortedMachines, lenient, j - 1)
           ELSE IF GreedyFits(g, highUtilMachine, sortedMachines[j].second,
                              taskLoad, taskToMigrate)
           THEN LET r == MigrateTask(g, taskToMigrate, highUtilMachine, lenient)
                IN  IF r.ok
                    THEN LET moved ==
                               [ r.g EXCEPT
                                   !.machineUtilization[lowUtilMachine] = @ - taskLoad,
                                   !.machineUtilization[highUtilMachine] = @ + taskLoad,
                                   !.taskToMachineMap[taskToMigrate] = highUtilMachine ]
                         IN  IF moved.vmTasks[vmId + 1] = << >>
                             THEN GreedyMachine_SetState(moved, lowUtilMachine, "S5")
                             ELSE moved
                    ELSE GreedyConsolidateLoop(r.g, taskToMigrate, taskLoad, vmId,
                                               sortedMachines, lenient, j - 1)
           ELSE GreedyConsolidateLoop(g, taskToMigrate, taskLoad, vmId,
                                      sortedMachines, lenient, j - 1)

\* The consolidation step of Scheduler::TaskComplete for one sorted list.
\* FindVMForMachine is called with its default arguments (LINUX, X86).
GreedyConsolidate(g, sortedMachines, lenient) ==
  IF Len(sortedMachines) >= 2 /\ sortedMachines[1].second > 0
  THEN LET found == GreedyFindVMForMachine(g, sortedMachines[1].first, "X86")
       IN  IF found.g.vmTasks[found.vm + 1] # << >>
           THEN LET taskToMigrate == found.g.vmTasks[found.vm + 1][1]
                IN  GreedyConsolidateLoop(found.g, taskToMigrate,
                                          GreedyTaskLoadFactor(found.g, taskToMigrate),
                                          found.vm, sortedMachines, lenient,
                                          Len(sortedMachines))
           ELSE found.g
  ELSE g

\* Scheduler::TaskComplete: the worlds it can leave.
GreedyTaskCompleteOp(g, task_id, lenient) ==
  IF g.taskToMachineMap[task_id] = NoSuchMachine THEN { g }
  ELSE LET completedTaskMachine == g.taskToMachineMap[task_id]
           erased == [ g EXCEPT !.taskToMachineMap[task_id] = NoSuchMachine ]
           taskLoadFactor == GreedyTaskLoadFactor(erased, task_id)
           released ==
             [ erased EXCEPT !.machineUtilization[completedTaskMachine] =
                               Max(0, @ - taskLoadFactor) ]
           activeCount ==
             Cardinality({ i \in 1 .. Len(released.machines) :
                             released.s_state[released.machines[i]] # "S5" })
       IN  IF activeCount > 4
           THEN { CheckAndTurnOffUnusedMachines(
                    GreedyConsolidate(released, sortedMachines, lenient)) :
                    sortedMachines \in GetSortedMachinesByUtilization(released) }
           ELSE { CheckAndTurnOffUnusedMachines(released) }

\* Scheduler::PeriodicCheck, from index i of machines.
RECURSIVE GreedyRefreshLoop(_, _)
GreedyRefreshLoop(g, i) ==
  IF i > Len(g.machines) THEN g
  ELSE LET machine == g.machines[i]
       IN  IF g.s_state[machine] # "S5"
           THEN GreedyRefreshLoop(
                  [ g EXCEPT !.machineUtilization[machine] =
                               GreedyMachineUtilization(g, machine) ], i + 1)
           ELSE GreedyRefreshLoop(g, i + 1)

\* SchedulerCheck: Scheduler::PeriodicCheck, then the counter; the tenth
\* check asks for the migration of VM 1 to machine 9.
GreedySchedulerCheckOp(g) ==
  LET checked == CheckAndTurnOffUnusedMachines(GreedyRefreshLoop(g, 1))
      counted == [ checked EXCEPT !.counts = @ + 1 ]
  IN  IF counted.counts = 10
      THEN [ counted EXCEPT !.calls = Append(@, [ op |-> "VM_Migrate", vm |-> 1,
                                                  machine_id |-> 9 ]) ]
      ELSE counted

\* Scheduler::Shutdown.
RECURSIVE GreedyShutdownLoop(_, _)
GreedyShutdownLoop(g, i) ==
  IF i > Len(g.vms) THEN g
  ELSE GreedyShutdownLoop(GreedyVM_Shutdown(g, g.vms[i]), i + 1)

GreedyShutdownOp(g) == GreedyShutdownLoop(g, 1)

\* The world an up-call starts from.
GreedyWorld == [ greedy EXCEPT !.calls = << >> ]

\* The run is not over and has up-calls left.
GreedyRunning == greedy.steps < GreedySteps /\ greedy.lastCall.op # "Shutdown"

GreedyCommit(g, call) ==
  /\ greedy' = [ g EXCEPT !.steps = @ + 1, !.lastCall = call ]
  /\ UNCHANGED << slaVars, probeTask, probeDemand, tierInput, tierSizes, eco,
                  pred >>

\* The tasks that run on some VM, and the machine that hosts task t.
GreedyActiveTasks ==
  { t \in Tasks : \E i \in 1 .. Len(greedy.vmTasks) : InSeq(t, greedy.vmTasks[i]) }

GreedyHostOf(g, t) ==
  g.vmHost[CHOOSE i \in 1 .. Len(g.vmTasks) : InSeq(t, g.vmTasks[i])]

\* HandleNewTask: the next task of the run arrives.
GreedyNewTask ==
  /\ GreedyRunning
  /\ \E t \in Tasks, c \in GreedyClasses, lenient \in BOOLEAN :
       /\ greedy.taskClass[t] = 0
       /\ \A u \in Tasks : u < t => greedy.taskClass[u] # 0
       /\ GreedyCommit(GreedyNewTaskOp([ GreedyWorld EXCEPT !.taskClass[t] = c ],
                                       t, lenient),
                       [ op |-> "NewTask", task_id |-> t ])

\* HandleTaskCompletion: a task on a VM finishes and frees its memory.  The
\* VM may or may not still list the task when the scheduler is told.
GreedyTaskComplete ==
  /\ GreedyRunning
  /\ \E t \in GreedyActiveTasks \ greedy.completed, listed \in BOOLEAN,
        lenient \in BOOLEAN :
       LET host == GreedyHostOf(greedy, t)
           done == [ GreedyWorld EXCEPT
                       !.completed = @ \cup { t },
                       !.memory_used[host] = Unsigned(@ - GetTaskMemory(greedy, t)) ]
           seen == IF listed THEN done
                   ELSE [ done EXCEPT
                            !.vmTasks = [ i \in DOMAIN @ |-> RemoveSeq(@[i], t) ] ]
       IN  \E g \in GreedyTaskCompleteOp(seen, t, lenient) :
             GreedyCommit([ g EXCEPT
                              !.vmTasks = [ i \in DOMAIN @ |-> RemoveSeq(@[i], t) ] ],
                          [ op |-> "TaskComplete", task_id |-> t,
                            machine_id |-> host,
                            released |-> greedy.taskToMachineMap[t] ])

\* SchedulerCheck.
GreedyPeriodicCheck ==
  /\ GreedyRunning
  /\ GreedyCommit(GreedySchedulerCheckOp(GreedyWorld), [ op |-> "PeriodicCheck" ])

\* SLAWarning: a running task is at risk of missing its deadline.
GreedySLAWarning ==
  /\ GreedyRunning
  /\ \E t \in GreedyActiveTasks \ greedy.completed, lenient \in BOOLEAN :
       \E g \in HandleSLAViolation(GreedyWorld, t, lenient) :
         GreedyCommit(g, [ op |-> "SLAWarning", task_id |-> t,
                           source |-> GreedyHostOf(greedy, t),
                           utilization |-> greedy.machineUtilization ])

\* StateChangeComplete: the simulator acknowledges the S-state requested for
\* a machine; the scheduler only reads the machine's info.
GreedyStateChangeComplete ==
  /\ GreedyRunning
  /\ \E m \in EcoMachines :
       /\ greedy.stateReq[m] # "none"
       /\ GreedyCommit([ GreedyWorld EXCEPT !.s_state[m] = greedy.stateReq[m],
                                           !.stateReq[m] = "none" ],
                       [ op |-> "StateChangeComplete", machine_id |-> m ])

\* MemoryWarning is an empty function, and MigrationDone is not called before
\* the tenth SchedulerCheck.

\* SimulationComplete: the run ends.
GreedyShutdown ==
  /\ GreedyRunning
  /\ GreedyCommit(GreedyShutdownOp(GreedyWorld), [ op |-> "Shutdown" ])

GreedyInit ==
  /\ NoRun
  /\ NoProbe
  /\ NoEco
  /\ NoPredictive
  /\ greedy = GreedyInitOp

GreedyNext ==
  \/ GreedyNewTask
  \/ GreedyTaskComplete
  \/ GreedyPeriodicCheck
  \/ GreedySLAWarning
  \/ GreedyStateChangeComplete
  \/ GreedyShutdown

GreedySpec == GreedyInit /\ [][GreedyNext]_vars

\* The simulator acknowledges every state change and finishes every migration.
LiveSpec ==
  /\ Init
  /\ [][Next]_vars
  /\ WF_vars(StateChangeComplete)
  /\ WF_vars(MigrationComplete)

(***************************************************************************)
(* Properties.                                                             *)
(***************************************************************************)
\* The down-calls of the last up-call with the given name.
CallsOf(op) == { i \in DOMAIN calls : calls[i].op = op }

TaskDemand(t) == CalculateTaskCPUUtilization(World, t)
TaskOf(t) == TaskClasses[taskClass[t]]

\* The tasks the (task -> machine) map places on machine m.
MappedTo(m) == { t \in DOMAIN machine_with_task : machine_with_task[t] = m }

C2_OneMigrationPerVM ==
  \A i \in CallsOf("MigrateVM") : ~ calls[i].migrating /\ ~ calls[i].moving

\* C2 witness: an up-call has started a migration while a migration of
\* another VM, started by an earlier up-call, was still in flight.
C2_Witness ==
  /\ ~ aborted
  /\ \E i \in CallsOf("VM_Migrate") :
       \E v \in migrating_vms :
         /\ v # calls[i].vm
         /\ \A j \in CallsOf("VM_Migrate") : calls[j].vm # v

\* C3: no up-call issues VM_AddTask for a VM that is in migrating_vms.
C3_NoTaskForMigratingVM ==
  \A i \in CallsOf("VM_AddTask") : ~ calls[i].migrating /\ ~ calls[i].moving

\* C3 witness: NewTask has added a task to a VM while a VM of the task's
\* guest type and CPU type was migrating.
C3_Witness ==
  /\ lastCall.op = "NewTask"
  /\ \E i \in CallsOf("VM_AddTask") :
       \E v \in migrating_vms :
         /\ vmInfo[v].vm_type = TaskOf(calls[i].task_id).required_vm
         /\ vmInfo[v].cpu = TaskOf(calls[i].task_id).required_cpu

\* C4: whenever MigrateVM is called the destination machine is in S0, so
\* the assertion in MigrateVM never fails.
C4_MigrationTargetInS0 ==
  /\ ~ aborted
  /\ \A i \in CallsOf("MigrateVM") : calls[i].target_state = "S0"

\* C5: every task on a VM has the VM's CPU type and guest type, the VM is
\* hosted on a machine of that CPU type, and every migration that has been
\* started goes to a machine of the VM's CPU type.
C5_TaskMatchesHost ==
  /\ \A v \in DOMAIN vmInfo : \A t \in vmInfo[v].active_tasks :
       /\ vmInfo[v].cpu = TaskOf(t).required_cpu
       /\ vmInfo[v].vm_type = TaskOf(t).required_vm
       /\ vmInfo[v].machine_id \in Machines
       /\ Fleet[vmInfo[v].machine_id + 1].cpu = TaskOf(t).required_cpu
  /\ \A i \in CallsOf("VM_AddTask") :
       /\ calls[i].machine_id \in Machines
       /\ Fleet[calls[i].machine_id + 1].cpu = TaskOf(calls[i].task_id).required_cpu
  /\ \A i \in CallsOf("MigrateVM") :
       Fleet[calls[i].target + 1].cpu = vmInfo[calls[i].vm].cpu
  /\ \A v \in DOMAIN inFlight : Fleet[inFlight[v] + 1].cpu = vmInfo[v].cpu

\* C5 witness: a VM that holds a task has arrived on another machine than
\* the one it was created on.
C5_Witness ==
  /\ lastCall.op = "MigrationComplete"
  /\ vmInfo[lastCall.vm].active_tasks # {}
  /\ lastCall.vm \in DOMAIN InitVMInfo
  /\ vmInfo[lastCall.vm].machine_id # InitVMInfo[lastCall.vm].machine_id

\* C6: S5 is never requested for a machine that pendingAttachments names.
C6_NoPowerOffWithPending ==
  \A i \in CallsOf("Machine_SetState") :
    calls[i].s_state = "S5" => ~ calls[i].pending

\* C7: S5 is never requested for a machine that hosts a VM with an active task.
C7_NoPowerOffWithLiveTask ==
  \A i \in CallsOf("Machine_SetState") :
    calls[i].s_state = "S5" => calls[i].live = {}

\* The entries of pendingAttachments that record task t.
PendingOf(t) == { i \in DOMAIN pendingAttachments : pendingAttachments[i].task_id = t }

\* C8: when NewTask(t) returns and a VM exists, t is on a VM or is recorded
\* in exactly one pending attachment.
C8_NewTaskPlaces ==
  (lastCall.op = "NewTask" /\ Len(vms) > 0) =>
     \/ \E v \in DOMAIN vmInfo : lastCall.task_id \in vmInfo[v].active_tasks
     \/ Cardinality(PendingOf(lastCall.task_id)) = 1

\* A machine that satisfies the compatibility constraints of task t.
Compatible(m, t) ==
  /\ Fleet[m + 1].cpu = TaskOf(t).required_cpu
  /\ TaskOf(t).gpu_capable => Fleet[m + 1].gpus
  /\ Fleet[m + 1].memory_size - memory_used[m] >= TaskOf(t).required_memory

\* C9: NewTask(t) with every machine in S5 and a compatible machine present
\* requests S0 for one machine, creates a VM and leaves exactly one new
\* pending attachment (vm, machine, t, priority, demand), without attaching.
\* (NewTask does not change s_state, so the states before and after agree.)
C9_WakePathOnEmptyCluster ==
  ( /\ lastCall.op = "NewTask"
    /\ \A m \in Machines : s_state[m] = "S5"
    /\ \E m \in Machines : Compatible(m, lastCall.task_id) )
  =>
  ( /\ Cardinality(CallsOf("Machine_SetState")) = 1
    /\ \A i \in CallsOf("Machine_SetState") : calls[i].s_state = "S0"
    /\ Cardinality(CallsOf("VM_Create")) = 1
    /\ CallsOf("VM_Attach") = {}
    /\ Cardinality(PendingOf(lastCall.task_id)) = 1
    /\ \A i \in PendingOf(lastCall.task_id) :
         /\ \E j \in CallsOf("VM_Create") : calls[j].vm = pendingAttachments[i].vm
         /\ \E j \in CallsOf("Machine_SetState") :
              calls[j].machine_id = pendingAttachments[i].machine_id
         /\ pendingAttachments[i].priority = PriorityOf(TaskOf(lastCall.task_id).required_sla)
         /\ pendingAttachments[i].demand = TaskDemand(lastCall.task_id) )

\* C10: StateChangeComplete(m) consumes exactly the pending attachments of m
\* when m is in S0 (attach, add the task at the recorded priority, commit the
\* demand, record the machine) and keeps every other one, in order.
C10_DrainExactly ==
  [][ lastCall'.op = "StateChangeComplete" =>
        LET m == lastCall'.machine_id
            Taken(e) == e.machine_id = m /\ s_state'[m] = "S0"
            taken == { i \in DOMAIN pendingAttachments : Taken(pendingAttachments[i]) }
        IN  /\ pendingAttachments' = SelectSeq(pendingAttachments, LAMBDA e : ~ Taken(e))
            /\ \A i \in taken :
                 LET e == pendingAttachments[i] IN
                 /\ vmInfo'[e.vm].machine_id = m
                 /\ e.task_id \in vmInfo'[e.vm].active_tasks
                 /\ e.task_id \in DOMAIN machine_with_task'
                 /\ machine_with_task'[e.task_id] = m
                 /\ \E j \in DOMAIN calls' :
                      /\ calls'[j].op = "VM_AddTask"
                      /\ calls'[j].vm = e.vm
                      /\ calls'[j].task_id = e.task_id
                      /\ calls'[j].priority = e.priority
            /\ mips_util_map' =
                 [ mips_util_map EXCEPT ![m] =
                     @ + SumOver(taken, [ i \in taken |-> pendingAttachments[i].demand ]) ]
            /\ Cardinality({ j \in DOMAIN calls' : calls'[j].op = "VM_AddTask" })
                 = Cardinality(taken)
    ]_vars

\* C10 witness: StateChangeComplete has attached a pending VM.
C10_Witness ==
  /\ lastCall.op = "StateChangeComplete"
  /\ CallsOf("VM_Attach") # {}

\* C11: TaskComplete(t) for a task t mapped to machine m removes t's entry
\* from machine_with_task, lowers the load of m by t's demand (not below
\* zero), leaves the load of every other machine alone, and requests S5 for m
\* exactly when the load of m is then zero and m is not in S5.
C11_TaskCompleteReleases ==
  [][ ( /\ lastCall'.op = "TaskComplete"
        /\ lastCall'.task_id \in DOMAIN machine_with_task )
      =>
      LET t == lastCall'.task_id
          m == machine_with_task[t]
          lowered == mips_util_map[m] - TaskDemand(t)
          now == IF lowered < 0 THEN 0 ELSE lowered
          requests == { i \in DOMAIN calls' : calls'[i].op = "Machine_SetState" }
      IN  /\ t \notin DOMAIN machine_with_task'
          /\ \A u \in DOMAIN machine_with_task \ {t} :
                /\ u \in DOMAIN machine_with_task'
                /\ machine_with_task'[u] = machine_with_task[u]
          /\ DOMAIN machine_with_task' \subseteq DOMAIN machine_with_task
          /\ mips_util_map' = [ mips_util_map EXCEPT ![m] = now ]
          /\ (requests # {}) <=> (now = 0 /\ s_state[m] # "S5")
          /\ \A i \in requests :
                calls'[i].machine_id = m /\ calls'[i].s_state = "S5"
          /\ Cardinality(requests) <= 1
    ]_vars

\* C11 witness: a TaskComplete has emptied a machine and requested S5 for it
\* while a task was still mapped to another machine.
C11_Witness ==
  /\ lastCall.op = "TaskComplete"
  /\ CallsOf("Machine_SetState") # {}
  /\ \E m \in Machines : mips_util_map[m] > 0

TotalLoad == SumOver(Machines, mips_util_map)

C15_GpuTaskOnGpuMachine ==
  /\ \A i \in CallsOf("VM_AddTask") :
       TaskOf(calls[i].task_id).gpu_capable =>
         /\ calls[i].machine_id \in Machines
         /\ Fleet[calls[i].machine_id + 1].gpus
  /\ \A i \in CallsOf("MigrateVM") :
       \A t \in vmInfo[calls[i].vm].active_tasks :
         TaskOf(t).gpu_capable => Fleet[calls[i].target + 1].gpus
  /\ \A v \in DOMAIN vmInfo : \A t \in vmInfo[v].active_tasks :
       TaskOf(t).gpu_capable =>
         /\ vmInfo[v].machine_id \in Machines
         /\ Fleet[vmInfo[v].machine_id + 1].gpus

\* The VMs attached to machine m that have not been shut down.
AttachedTo(m) == { v \in DOMAIN vmInfo : vmInfo[v].machine_id = m /\ v \notin shutdownVMs }

\* C16: when PeriodicCheck or TaskComplete has requested S5 for a machine,
\* every VM attached to it has been shut down, and a machine in S5 has no
\* attached VM.  (The VM of a pending attachment is not attached.)
C16_NoVMOnPoweredOffMachine ==
  /\ lastCall.op \in {"PeriodicCheck", "TaskComplete"} =>
       \A i \in CallsOf("Machine_SetState") :
         calls[i].s_state = "S5" => AttachedTo(calls[i].machine_id) = {}
  /\ \A m \in Machines : s_state[m] = "S5" => AttachedTo(m) = {}

\* C17: Shutdown calls VM_Shutdown for every VM created during the run.
C17_ShutdownCoversEveryVM ==
  lastCall.op = "Shutdown" =>
    \A v \in DOMAIN vmInfo : \E i \in CallsOf("VM_Shutdown") : calls[i].vm = v

\* The fixed guest/host compatibility matrix.
Allowed(vm_type, cpu) ==
  CASE vm_type = "AIX" -> cpu = "POWER"
    [] vm_type = "WIN" -> cpu \in {"X86", "ARM"}
    [] vm_type \in {"LINUX", "LINUX_RT"} -> cpu \in {"X86", "ARM", "POWER", "RISCV"}
    [] OTHER -> FALSE

\* C18: every VM created, by Init or by NewTask, has a (guest, CPU) pair the
\* compatibility matrix allows.
C18_CreatedVMsAllowed ==
  /\ \A v \in DOMAIN vmInfo : Allowed(vmInfo[v].vm_type, vmInfo[v].cpu)
  /\ \A i \in CallsOf("VM_Create") : Allowed(calls[i].vm_type, calls[i].cpu)

\* The priority the SLA classes stand for.
SLAPriority ==
  [ sla \in {"SLA0", "SLA1", "SLA2", "SLA3"} |->
      CASE sla = "SLA0" -> "HIGH_PRIORITY"
        [] sla = "SLA1" -> "MID_PRIORITY"
        [] sla = "SLA2" -> "LOW_PRIORITY"
        [] sla = "SLA3" -> "LOW_PRIORITY" ]

\* C19: the priority passed to VM_AddTask and the priority stored in a
\* pending attachment are the one the task's SLA class stands for: HIGH for
\* SLA0, MID for SLA1, LOW for SLA2 and SLA3.
C19_PriorityFromSLA ==
  /\ \A i \in CallsOf("VM_AddTask") :
       calls[i].priority = SLAPriority[TaskOf(calls[i].task_id).required_sla]
  /\ \A i \in DOMAIN pendingAttachments :
       pendingAttachments[i].priority
         = SLAPriority[TaskOf(pendingAttachments[i].task_id).required_sla]

\* C19 witness: NewTask has added an SLA3 task to a VM while the pending
\* attachment of an SLA2 task is waiting.
C19_Witness ==
  /\ lastCall.op = "NewTask"
  /\ \E i \in CallsOf("VM_AddTask") :
       /\ calls[i].task_id = lastCall.task_id
       /\ TaskOf(calls[i].task_id).required_sla = "SLA3"
       /\ calls[i].priority = "LOW_PRIORITY"
  /\ \E i \in DOMAIN pendingAttachments :
       /\ TaskOf(pendingAttachments[i].task_id).required_sla = "SLA2"
       /\ pendingAttachments[i].priority = "LOW_PRIORITY"

\* C20: a migration started by SLAWarning(t) moves a VM from the machine
\* that hosts t: the machine machine_with_task records for t, or the machine
\* the VM that runs t is on.
C20_MigratesFromTaskMachine ==
  [][ lastCall'.op = "SLAWarning" =>
        LET t == lastCall'.task_id
            mapped == IF t \in DOMAIN machine_with_task
                      THEN {machine_with_task[t]} ELSE {}
            hosts == { vmInfo[v].machine_id :
                         v \in { u \in DOMAIN vmInfo : t \in vmInfo[u].active_tasks } }
        IN  \A i \in DOMAIN calls' :
              calls'[i].op = "MigrateVM" => calls'[i].source \in mapped \cup hosts
    ]_vars

\* The memory the active tasks of VM v take.
VMMemory(v) ==
  SumOver(vmInfo[v].active_tasks,
          [ t \in vmInfo[v].active_tasks |-> TaskOf(t).required_memory ])

\* Machine d can take VM v over from machine m.
CanHost(v, m, d) ==
  /\ d # m
  /\ s_state[d] = "S0"
  /\ Fleet[d + 1].cpu = vmInfo[v].cpu
  /\ \A t \in vmInfo[v].active_tasks : TaskOf(t).gpu_capable => Fleet[d + 1].gpus
  /\ memory_used[d] + VMMemory(v) <= Fleet[d + 1].memory_size

\* C21: MemoryWarning(m), with a non-migrating VM on m and a compatible
\* destination for it, starts a migration of the VM on m that takes the most
\* memory.
C21_MemoryWarningEscalates ==
  lastCall.op = "MemoryWarning" =>
    LET m == lastCall.machine_id
        started == { calls[i].vm : i \in CallsOf("MigrateVM") }
        movable == { v \in DOMAIN vmInfo :
                       /\ vmInfo[v].machine_id = m
                       /\ v \notin migrating_vms \/ v \in started }
    IN  (\E v \in movable : \E d \in Machines : CanHost(v, m, d))
        => \E v \in started :
             /\ v \in movable
             /\ \A u \in movable : VMMemory(u) <= VMMemory(v)

\* C22: when NewTask creates a VM for a task on a machine in S0, it attaches
\* the VM, adds the task, commits the load and records the machine before it
\* returns, and leaves no pending attachment for the VM.
C22_CreatedVMAttachedAtOnce ==
  lastCall.op = "NewTask" =>
    \A i \in CallsOf("VM_Create") :
      LET v == calls[i].vm IN
      /\ \E j \in CallsOf("VM_Attach") : calls[j].vm = v /\ calls[j].s_state = "S0"
      /\ \E j \in CallsOf("VM_AddTask") :
            calls[j].vm = v /\ calls[j].task_id = lastCall.task_id
      /\ lastCall.task_id \in DOMAIN machine_with_task
      /\ \A k \in DOMAIN pendingAttachments : pendingAttachments[k].vm # v

\* The run is over: the simulator makes no further up-call.
RunOver == steps = limit \/ aborted \/ lastCall.op = "Shutdown"

\* C23: when the simulator acknowledges every state change requested, a task
\* recorded in pendingAttachments is eventually taken out of the table
\* (unless the run ends first).
C23_PendingEventuallyConsumed ==
  \A t \in Tasks : (PendingOf(t) # {}) ~> (PendingOf(t) = {} \/ RunOver)

\* C24: one NewTask(t) requests S0 for at most one machine, and only for a
\* machine of t's CPU type, with GPUs if t needs them and with the free
\* memory t needs.
C24_WakesOneCompatibleMachine ==
  lastCall.op = "NewTask" =>
    LET woken == { i \in CallsOf("Machine_SetState") : calls[i].s_state = "S0" }
    IN  /\ Cardinality(woken) <= 1
        /\ \A i \in woken : Compatible(calls[i].machine_id, lastCall.task_id)

\* C25: whenever a task is committed to a machine (direct placement in
\* NewTask, drain in StateChangeComplete), the load committed so far plus the
\* task's demand is at most the machine's capacity and the free memory is at
\* least the task's memory.
C25_CommitWithinCapacity ==
  \A i \in CallsOf("commit") :
    LET m == calls[i].machine_id
        t == calls[i].task_id
    IN  /\ calls[i].load_before + TaskDemand(t) <= Fleet[m + 1].mips
        /\ Fleet[m + 1].memory_size - calls[i].memory_before >= TaskOf(t).required_memory

\* C26: TaskComplete(t) for a task t without an entry in machine_with_task
\* changes no committed load, adds no entry to the map and requests no
\* power-state change.
C26_ReleaseOfUnmappedTask ==
  [][ ( /\ lastCall'.op = "TaskComplete"
        /\ lastCall'.task_id \notin DOMAIN machine_with_task )
      =>
      /\ mips_util_map' = mips_util_map
      /\ machine_with_task' = machine_with_task
      /\ \A i \in DOMAIN calls' : calls'[i].op # "Machine_SetState"
    ]_vars

\* The machines that PeriodicCheck may pick as destination of a VM of the
\* given CPU type leaving machine src, by the loads L: same CPU type and
\* CPU utilisation at most that of src minus 0.1.
Destinations(L, src, cpu) ==
  { d \in Machines \ {src} :
      /\ Fleet[d + 1].cpu = cpu
      /\ 10 * L[d] * Fleet[src + 1].mips
            <= 10 * L[src] * Fleet[d + 1].mips - Fleet[src + 1].mips * Fleet[d + 1].mips }

\* C27: every migration PeriodicCheck starts has, by the committed loads at
\* the moment it is started, a source with CPU utilisation above 0.9 and a
\* destination of the VM's CPU type whose CPU utilisation is at most the
\* source's minus 0.1 and the lowest among such machines.
C27_PeriodicMigrationConditions ==
  lastCall.op = "PeriodicCheck" =>
    \A i \in CallsOf("MigrateVM") :
      LET L == calls[i].loads
          src == calls[i].source
          tgt == calls[i].target
          ok == Destinations(L, src, vmInfo[calls[i].vm].cpu)
      IN  /\ 10 * L[src] > 9 * Fleet[src + 1].mips
          /\ tgt \in ok
          /\ \A d \in ok : L[tgt] * Fleet[d + 1].mips <= L[d] * Fleet[tgt + 1].mips

\* C28: PeriodicCheck calls MigrateVM only for a VM with active tasks of
\* positive aggregate demand, so that the migration lowers the committed
\* load of the source.
C28_PeriodicMigrationLowersSource ==
  lastCall.op = "PeriodicCheck" =>
    \A i \in CallsOf("MigrateVM") :
      /\ vmInfo[calls[i].vm].active_tasks # {}
      /\ calls[i].demand > 0

\* The machines that are the destination of a migration in flight.
MigrationDestinations == { inFlight[v] : v \in DOMAIN inFlight }

\* C29: NewTask neither adds a task to a VM on a machine that is the
\* destination of a migration in flight nor records a pending attachment for
\* such a machine.
C29_NoPlacementOnDestination ==
  lastCall.op = "NewTask" =>
    /\ \A i \in CallsOf("VM_AddTask") : calls[i].machine_id \notin MigrationDestinations
    /\ \A k \in PendingOf(lastCall.task_id) :
         pendingAttachments[k].machine_id \notin MigrationDestinations

\* The transitions of the graph S0 <-> S3 <-> S5.
SStateEdges ==
  { << "S0", "S3" >>, << "S3", "S0" >>, << "S3", "S5" >>, << "S5", "S3" >> }

\* C30: every Machine_SetState request goes along an edge of the graph
\* S0 <-> S3 <-> S5 from the state the machine is in.
C30_SStateGraph ==
  \A i \in CallsOf("Machine_SetState") :
    << calls[i].from, calls[i].s_state >> \in SStateEdges

\* C31: for a task whose target_completion is at most its arrival,
\* CalculateTaskCPUUtilization returns the demand of a runtime of one
\* microsecond, which is the task's instruction count.
C31_FloorForLateTargets ==
  (probeDemand # -1 /\ probeTask.target_completion <= probeTask.arrival)
    => probeDemand = probeTask.total_instructions

\* The smallest number of machines of four tasks each that hold n tasks.
CeilQuarter(n) == (n + 3) \div 4

\* C32: the running-tier size CalculateTierSizes returns is at least
\* max(ceil(activeWorkload / 4), 2).
C32_RunningTierLowerBound ==
  tierSizes.runningSize # -1 =>
    tierSizes.runningSize >= Max(CeilQuarter(tierInput.activeWorkload), 2)

\* C40: the sizes CalculateTierSizes returns fit the cluster:
\* runningSize + intermediateSize <= totalMachines, and intermediateSize is
\* in 0 .. totalMachines (the subtraction totalMachines - runningSize did not
\* wrap).
C40_TierSizesFitCluster ==
  tierSizes.runningSize # -1 =>
    /\ tierSizes.runningSize + tierSizes.intermediateSize <= tierInput.totalMachines
    /\ tierSizes.intermediateSize \in 0 .. tierInput.totalMachines

\* The down-calls of the last up-call into the tier-management scheduler
\* with the given name.
EcoCallsOf(op) == { i \in DOMAIN eco.calls : eco.calls[i].op = op }

\* The up-calls that adjust the tiers.
TierUpCalls == { "NewTask", "TaskComplete", "PeriodicCheck" }

\* C33: no machine with machineLoads[m] > 0 is in the INTERMEDIATE or
\* SWITCHED_OFF tier, and NewTask, TaskComplete and PeriodicCheck never call
\* VM_Shutdown for a VM on a machine with nonzero tracked load.
C33_LoadedMachineStaysRunning ==
  /\ \A m \in EcoMachines :
       eco.machineLoads[m] > 0 => eco.machineTiers[m] = "RUNNING"
  /\ eco.lastCall.op \in TierUpCalls =>
       \A i \in EcoCallsOf("VM_Shutdown") : eco.calls[i].load = 0

\* TaskComplete has emptied the machine that ran the task and demoted it,
\* shutting its VM down, while another machine still carries load.
C33_Witness ==
  /\ eco.lastCall.op = "TaskComplete"
  /\ eco.machineTiers[eco.lastCall.machine_id] # "RUNNING"
  /\ \E i \in EcoCallsOf("VM_Shutdown") :
       eco.calls[i].machine_id = eco.lastCall.machine_id
  /\ \E m \in EcoMachines : eco.machineLoads[m] > 0

\* C34: every VM_Attach(vm, m), and every VM_AddTask to a VM on m, is issued
\* when m is in S0 and no request to wake m is waiting to be acknowledged.
C34_AttachAfterWakeAcknowledged ==
  \A i \in EcoCallsOf("VM_Attach") \cup EcoCallsOf("VM_AddTask") :
    eco.calls[i].s_state = "S0" /\ eco.calls[i].stateReq # "S0"

\* C38: a RUNNING machine was last requested S0 or never requested a state,
\* an INTERMEDIATE machine was last requested S3, a SWITCHED_OFF machine S5.
C38_TierMatchesRequestedState ==
  \A m \in EcoMachines :
    /\ eco.machineTiers[m] = "RUNNING" => eco.requested[m] \in { "none", "S0" }
    /\ eco.machineTiers[m] = "INTERMEDIATE" => eco.requested[m] = "S3"
    /\ eco.machineTiers[m] = "SWITCHED_OFF" => eco.requested[m] = "S5"

\* Every tier is populated and every transition between tiers has been
\* taken: some machine was woken to RUNNING, some is in standby, some is off.
C38_Witness ==
  /\ \E m \in EcoMachines :
       eco.machineTiers[m] = "RUNNING" /\ eco.requested[m] = "S0"
  /\ \E m \in EcoMachines : eco.machineTiers[m] = "INTERMEDIATE"
  /\ \E m \in EcoMachines : eco.machineTiers[m] = "SWITCHED_OFF"

\* C39: machines and vms have the same length, no machine id is twice in
\* machines, and vms[index of m in machines] is a VM attached to m.
C39_MachinesAndVMsParallel ==
  /\ Len(eco.machines) = Len(eco.vms)
  /\ \A i, j \in DOMAIN eco.machines :
       eco.machines[i] = eco.machines[j] => i = j
  /\ \A i \in DOMAIN eco.machines :
       eco.vmHost[eco.vms[i] + 1] = eco.machines[i]

\* The entries of a pendingAttachments vector p that name task t.
PendingIn(p, t) == { i \in DOMAIN p : p[i].task_id = t }

\* C37: after every up-call no task is both in a pending attachment and in
\* machine_with_task, and no task is in two pending attachments; NewTask
\* adds at most one pending attachment.
C37_PendingAndMappedDisjoint ==
  [][ /\ \A t \in Tasks :
           /\ Cardinality(PendingIn(pendingAttachments', t)) <= 1
           /\ PendingIn(pendingAttachments', t) # {} =>
                t \notin DOMAIN machine_with_task'
      /\ lastCall'.op = "NewTask" =>
           Len(pendingAttachments') <= Len(pendingAttachments) + 1
    ]_vars

\* StateChangeComplete has just moved a task from pendingAttachments to
\* machine_with_task.
C37_Witness ==
  /\ lastCall.op = "StateChangeComplete"
  /\ \E i \in CallsOf("commit") :
       /\ calls[i].task_id \in DOMAIN machine_with_task
       /\ PendingOf(calls[i].task_id) = {}

\* C35: after a completion whose history has a smaller second-half average
\* than first-half average the stored slope is negative and at least -1.0, and
\* positive when the second-half average is larger; when the averages fell by
\* more than a tenth and AdjustVMSize ran on a VM of size above 1, it took the
\* branch that decreases the size.
C35_FallingTimesGiveNegativeSlope ==
  Len(pred.history) >= 2 =>
    LET firstHalfAvg == FirstHalfAvg(pred.history)
        secondHalfAvg == SecondHalfAvg(pred.history)
    IN  /\ secondHalfAvg < firstHalfAvg =>
             pred.slope.num < 0 /\ 0 - pred.slope.num <= pred.slope.den
        /\ secondHalfAvg > firstHalfAvg => pred.slope.num > 0
        /\ ( /\ 10 * (firstHalfAvg - secondHalfAvg) > firstHalfAvg
             /\ pred.branch # "not run"
             /\ pred.sizeBefore > 1 )
           => pred.branch = "decrease" /\ pred.size = pred.sizeBefore - 1

\* C36: taskToMachineMap names the machine that hosts the task: every task
\* that runs on a VM and has an entry is mapped to that VM's machine; after
\* an SLAWarning that moved the task to another machine, machineUtilization
\* of the source has gone down and that of the destination up by the task's
\* load factor; and TaskComplete releases load on the machine that hosted the
\* task.
C36_TaskMapNamesHost ==
  /\ \A t \in GreedyActiveTasks \ greedy.completed :
       greedy.taskToMachineMap[t] # NoSuchMachine
         => greedy.taskToMachineMap[t] = GreedyHostOf(greedy, t)
  /\ ( /\ greedy.lastCall.op = "SLAWarning"
       /\ greedy.lastCall.task_id \in GreedyActiveTasks
       /\ GreedyHostOf(greedy, greedy.lastCall.task_id) # greedy.lastCall.source )
     => LET t == greedy.lastCall.task_id
            source == greedy.lastCall.source
            destination == GreedyHostOf(greedy, t)
            before == greedy.lastCall.utilization
        IN  /\ greedy.machineUtilization[source]
                 = before[source] - GetTaskMemory(greedy, t)
            /\ greedy.machineUtilization[destination]
                 = before[destination] + GetTaskMemory(greedy, t)
  /\ ( /\ greedy.lastCall.op = "TaskComplete"
       /\ greedy.lastCall.released # NoSuchMachine )
     => greedy.lastCall.released = greedy.lastCall.machine_id

====
